---- MODULE Spec2Model ----
(***************************************************************************)
(* A model of the piece-interaction engine of the jigsaw puzzle:           *)
(* PuzzleBoard (src/unnamed/part_009, first variant, lines 1-1013),        *)
(* SnapDetector (src/src/utils/touch.ts), PuzzlePiece                      *)
(* (src/src/utils/errorHandler.ts, lines 207-397) and PuzzleGenerator      *)
(* (src/unnamed/part_010).                                                 *)
(*                                                                         *)
(* Coordinates are integers.  Distances are kept squared (distance2), so   *)
(* every comparison of two Math.hypot / Math.sqrt values is a comparison   *)
(* of two integers.  Rotations are multiples of 90 degrees and             *)
(* rotateVector is exact on them.  Pieces are identified by their id; the  *)
(* piece list `pieces` is the draw-order array of the board, and a piece's *)
(* connectedPieces is a duplicate-free sequence in the insertion order of  *)
(* the JavaScript Set.                                                     *)
(***************************************************************************)
EXTENDS Integers, Sequences, FiniteSets, TLC

(***************************************************************************)
(* Bounds of the model.                                                    *)
(***************************************************************************)
Rows == 1
Cols == 3
MaxCommands == 1

(***************************************************************************)
(* Program constants.                                                      *)
(***************************************************************************)
SNAP_DISTANCE == 30
DRAG_THRESHOLD == 5
PieceWidth == 840
PieceHeight == 420

\* Camera scales in quarters.
SCALE_ONE == 4
MIN_SCALE == 1
MAX_SCALE == 16
NAN_SCALE == 0

Null == -1
NullPos == [isNull |-> TRUE]
NoSnap == [found |-> FALSE]
NoAnimation == [active |-> FALSE]
NoPinch == [active |-> FALSE]

NumPieces == Rows * Cols
PieceIds == 0 .. (NumPieces - 1)
Rotations == {0, 90, 180, 270}

Sq(n) == n * n
Dist2(ax, ay, bx, by) == Sq(ax - bx) + Sq(ay - by)
Range(s) == {s[i] : i \in DOMAIN s}

(***************************************************************************)
(* PuzzleGenerator: solved positions and connection slots.                 *)
(***************************************************************************)
\* baseX = col * pieceWidth, baseY = row * pieceHeight
originalPosition(cols, id) ==
    [x |-> (id % cols) * PieceWidth, y |-> (id \div cols) * PieceHeight]

NoConnection == [edge |-> "none"]

\* connections[0..3] = top, right, bottom, left; a missing slot is a hole of
\* the array.  The polarity (tab or blank) is random and never null.
generateEdgeConnections(rows, cols, id) ==
    LET row == id \div cols
        col == id % cols
    IN  [slot \in 0 .. 3 |->
          CASE slot = 0 /\ row > 0 ->
                 [edge |-> "top", type |-> "tab",
                  matingPieceId |-> (row - 1) * cols + col, matingEdge |-> "bottom"]
            [] slot = 1 /\ col < cols - 1 ->
                 [edge |-> "right", type |-> "tab",
                  matingPieceId |-> row * cols + col + 1, matingEdge |-> "left"]
            [] slot = 2 /\ row < rows - 1 ->
                 [edge |-> "bottom", type |-> "tab",
                  matingPieceId |-> (row + 1) * cols + col, matingEdge |-> "top"]
            [] slot = 3 /\ col > 0 ->
                 [edge |-> "left", type |-> "tab",
                  matingPieceId |-> row * cols + col - 1, matingEdge |-> "right"]
            [] OTHER -> NoConnection]

\* The piece generatePuzzle makes for the cell `id` of a rows x cols puzzle,
\* put at (x, y) with the given rotation and face.
NewPiece(rows, cols, id, x, y, rotation, faceUp) ==
    [id |-> id, x |-> x, y |-> y, width |-> PieceWidth, height |-> PieceHeight,
     rotation |-> rotation, faceUp |-> faceUp,
     isLocked |-> FALSE, isDragging |-> FALSE,
     dragOffset |-> [x |-> 0, y |-> 0], connectedPieces |-> <<>>,
     originalPosition |-> originalPosition(cols, id),
     connections |-> generateEdgeConnections(rows, cols, id)]

\* A piece restored from a saved session (App.restorePieces copies x, y,
\* rotation, faceUp, dragOffset, isLocked and connectedPieces of the saved
\* piece): here an unconnected piece that was last held by its centre.
RestoredPiece(rows, cols, id, x, y, rotation, faceUp) ==
    [NewPiece(rows, cols, id, x, y, rotation, faceUp) EXCEPT
        !.dragOffset = [x |-> PieceWidth \div 2, y |-> PieceHeight \div 2]]

(***************************************************************************)
(* Piece list helpers (Array.find / findIndex by id).                      *)
(***************************************************************************)
IndexOf(ps, id) ==
    IF \E i \in DOMAIN ps : ps[i].id = id
    THEN CHOOSE i \in DOMAIN ps : ps[i].id = id /\ \A j \in 1 .. (i - 1) : ps[j].id # id
    ELSE 0

HasPiece(ps, id) == IndexOf(ps, id) # 0
PieceById(ps, id) == ps[IndexOf(ps, id)]

\* The piece list with the piece `id` replaced by the record q.
SetPiece(ps, id, q) == [i \in DOMAIN ps |-> IF ps[i].id = id THEN q ELSE ps[i]]

(***************************************************************************)
(* PuzzlePiece methods.                                                    *)
(***************************************************************************)
\* TouchHandler.rotateVector, exact on multiples of 90 degrees.
rotateVector(x, y, degrees) ==
    CASE degrees % 360 = 0   -> [x |-> x, y |-> y]
      [] degrees % 360 = 90  -> [x |-> 0 - y, y |-> x]
      [] degrees % 360 = 180 -> [x |-> 0 - x, y |-> 0 - y]
      [] degrees % 360 = 270 -> [x |-> y, y |-> 0 - x]

\* PuzzlePiece.containsPoint; coordinates doubled in the rotated branch so
\* that the centre is an integer.
containsPoint(p, x, y) ==
    IF p.rotation % 180 = 0
    THEN /\ x >= p.x /\ x <= p.x + p.width
         /\ y >= p.y /\ y <= p.y + p.height
    ELSE LET dx2 == 2 * x - (2 * p.x + p.width)
             dy2 == 2 * y - (2 * p.y + p.height)
             local == rotateVector(dx2, dy2, 360 - p.rotation)
         IN  /\ local.x >= 0 - p.width /\ local.x <= p.width
             /\ local.y >= 0 - p.height /\ local.y <= p.height

flip(p) == [p EXCEPT !.faceUp = ~p.faceUp]

rotate90(p) ==
    IF p.faceUp THEN [p EXCEPT !.rotation = (p.rotation + 90) % 360] ELSE p

(***************************************************************************)
(* Connectivity / grouping engine.                                         *)
(***************************************************************************)
\* Without(s, id): the sequence s without the element id (Set.delete).
Without(s, id) == SelectSeq(s, LAMBDA e : e # id)

\* AddId(s, id): Set.add on an insertion-ordered set.
AddId(s, id) == IF id \in Range(s) THEN s ELSE Append(s, id)

RECURSIVE AddAll(_, _)
AddAll(s, ids) ==
    IF ids = <<>> THEN s ELSE AddAll(AddId(s, Head(ids)), Tail(ids))

\* The while loop of getAllPiecesInGroup: toVisit is a stack, popped at its end.
RECURSIVE GroupWalk(_, _, _, _)
GroupWalk(ps, group, visited, toVisit) ==
    IF toVisit = <<>> THEN group
    ELSE LET pieceId == toVisit[Len(toVisit)]
             rest == SubSeq(toVisit, 1, Len(toVisit) - 1)
             seen == visited \cup {pieceId}
         IN  IF pieceId \in visited THEN GroupWalk(ps, group, visited, rest)
             ELSE IF HasPiece(ps, pieceId)
                  THEN GroupWalk(ps, Append(group, pieceId), seen,
                                 rest \o SelectSeq(PieceById(ps, pieceId).connectedPieces,
                                                   LAMBDA e : e \notin seen))
                  ELSE GroupWalk(ps, group, seen, rest)

\* The group of a piece as the list of ids the traversal returns.
getAllPiecesInGroup(ps, id) ==
    GroupWalk(ps, <<id>>, {id}, PieceById(ps, id).connectedPieces)

\* Faulty variant of mergeGroups: the piece's own id is not deleted from the
\* merged set.
mergeGroupsKeepSelf(ps, id1, id2) ==
    LET group1 == getAllPiecesInGroup(ps, id1)
        group2 == getAllPiecesInGroup(ps, id2)
        allPieceIds == AddAll(<<>>, group1 \o group2)
    IN  [i \in DOMAIN ps |->
          IF ps[i].id \in Range(allPieceIds)
          THEN [ps[i] EXCEPT !.connectedPieces = allPieceIds]
          ELSE ps[i]]

\* Faulty variant of mergeGroups: the merged set is built from the two
\* snapped pieces instead of their groups.
mergeGroupsPairOnly(ps, id1, id2) ==
    LET group1 == getAllPiecesInGroup(ps, id1)
        group2 == getAllPiecesInGroup(ps, id2)
        allPieceIds == AddAll(<<>>, <<id1, id2>>)
    IN  [i \in DOMAIN ps |->
          IF ps[i].id \in Range(group1 \o group2)
          THEN [ps[i] EXCEPT !.connectedPieces = Without(allPieceIds, ps[i].id)]
          ELSE ps[i]]

\* Faulty variant of mergeGroups: only the two snapped pieces get the merged
\* set, the other members of their groups are left as they were.
mergeGroupsDirect(ps, id1, id2) ==
    LET group1 == getAllPiecesInGroup(ps, id1)
        group2 == getAllPiecesInGroup(ps, id2)
        allPieceIds == AddAll(<<>>, group1 \o group2)
    IN  [i \in DOMAIN ps |->
          IF ps[i].id \in {id1, id2}
          THEN [ps[i] EXCEPT !.connectedPieces = Without(allPieceIds, ps[i].id)]
          ELSE ps[i]]

mergeGroups(ps, id1, id2) ==
    LET group1 == getAllPiecesInGroup(ps, id1)
        group2 == getAllPiecesInGroup(ps, id2)
        allPieceIds == AddAll(<<>>, group1 \o group2)
    IN  [i \in DOMAIN ps |->
          IF ps[i].id \in Range(allPieceIds)
          THEN [ps[i] EXCEPT !.connectedPieces = Without(allPieceIds, ps[i].id)]
          ELSE ps[i]]

\* Faulty variant of bringToFront: the group is appended in the order of the
\* traversal instead of its previous draw order.
bringToFrontTraversalOrder(ps, id) ==
    LET group == getAllPiecesInGroup(ps, id)
    IN  SelectSeq(ps, LAMBDA p : p.id \notin Range(group))
          \o [k \in DOMAIN group |-> PieceById(ps, group[k])]

bringToFront(ps, id) ==
    LET groupSet == Range(getAllPiecesInGroup(ps, id))
    IN  SelectSeq(ps, LAMBDA p : p.id \notin groupSet)
          \o SelectSeq(ps, LAMBDA p : p.id \in groupSet)

(***************************************************************************)
(* Snap detector.                                                          *)
(***************************************************************************)
RECURSIVE ConnectionScan(_, _, _)
ConnectionScan(conns, slot, id2) ==
    IF slot > 3 THEN NoConnection
    ELSE IF conns[slot] = NoConnection THEN ConnectionScan(conns, slot + 1, id2)
    ELSE IF conns[slot].type = "null" THEN ConnectionScan(conns, slot + 1, id2)
    ELSE IF conns[slot].matingPieceId # id2 THEN ConnectionScan(conns, slot + 1, id2)
    ELSE conns[slot]

getConnection(piece1, piece2) == ConnectionScan(piece1.connections, 0, piece2.id)

\* The snap the loop body of findSnapTarget computes for the target `piece`.
SnapOnto(draggedPiece, piece, draggedX, draggedY) ==
    LET draggedCenter == [x |-> draggedX + draggedPiece.width \div 2,
                          y |-> draggedY + draggedPiece.height \div 2]
        targetCenter == [x |-> piece.x + piece.width \div 2,
                         y |-> piece.y + piece.height \div 2]
        originalDelta ==
            [x |-> (draggedPiece.originalPosition.x + draggedPiece.width \div 2)
                     - (piece.originalPosition.x + piece.width \div 2),
             y |-> (draggedPiece.originalPosition.y + draggedPiece.height \div 2)
                     - (piece.originalPosition.y + piece.height \div 2)]
        rotatedDelta == rotateVector(originalDelta.x, originalDelta.y, draggedPiece.rotation)
        expectedCenter == [x |-> targetCenter.x + rotatedDelta.x,
                           y |-> targetCenter.y + rotatedDelta.y]
    IN  [found |-> TRUE,
         targetPiece |-> piece.id,
         snapX |-> expectedCenter.x - draggedPiece.width \div 2,
         snapY |-> expectedCenter.y - draggedPiece.height \div 2,
         connection |-> getConnection(draggedPiece, piece),
         distance2 |-> Dist2(draggedCenter.x, draggedCenter.y,
                             expectedCenter.x, expectedCenter.y)]

\* Faulty variant of SnapEligible: the face of the target is not looked at.
SnapEligibleAnyFace(draggedPiece, piece) ==
    /\ piece.id # draggedPiece.id
    /\ piece.id \notin Range(draggedPiece.connectedPieces)
    /\ piece.rotation = draggedPiece.rotation
    /\ getConnection(draggedPiece, piece) # NoConnection

\* The guards of the loop body that reach the distance computation.
SnapEligible(draggedPiece, piece) ==
    /\ piece.id # draggedPiece.id
    /\ piece.id \notin Range(draggedPiece.connectedPieces)
    /\ piece.faceUp
    /\ piece.rotation = draggedPiece.rotation
    /\ getConnection(draggedPiece, piece) # NoConnection

\* Faulty variant of SnapBetter: both comparisons are <= instead of <.
SnapBetterOrEqual(snap, closestSnap) ==
    /\ snap.distance2 <= Sq(SNAP_DISTANCE)
    /\ (closestSnap = NoSnap \/ snap.distance2 <= closestSnap.distance2)

\* distance < SNAP_DISTANCE && (!closestSnap || distance < closestSnap.distance)
SnapBetter(snap, closestSnap) ==
    /\ snap.distance2 < Sq(SNAP_DISTANCE)
    /\ (closestSnap = NoSnap \/ snap.distance2 < closestSnap.distance2)

\* Faulty variant of SnapScan: the loop ends at the first piece that has a
\* connection to the dragged piece, near or not.
RECURSIVE SnapScanFirstHit(_, _, _, _, _, _)
SnapScanFirstHit(draggedPiece, allPieces, draggedX, draggedY, i, closestSnap) ==
    IF i > Len(allPieces) THEN closestSnap
    ELSE LET piece == allPieces[i]
             snap == SnapOnto(draggedPiece, piece, draggedX, draggedY)
         IN  IF SnapEligible(draggedPiece, piece)
             THEN IF SnapBetter(snap, closestSnap) THEN snap ELSE closestSnap
             ELSE SnapScanFirstHit(draggedPiece, allPieces, draggedX, draggedY,
                                   i + 1, closestSnap)

RECURSIVE SnapScan(_, _, _, _, _, _)
SnapScan(draggedPiece, allPieces, draggedX, draggedY, i, closestSnap) ==
    IF i > Len(allPieces) THEN closestSnap
    ELSE LET piece == allPieces[i]
             snap == SnapOnto(draggedPiece, piece, draggedX, draggedY)
         IN  IF SnapEligible(draggedPiece, piece) /\ SnapBetter(snap, closestSnap)
             THEN SnapScan(draggedPiece, allPieces, draggedX, draggedY, i + 1, snap)
             ELSE SnapScan(draggedPiece, allPieces, draggedX, draggedY, i + 1, closestSnap)

findSnapTarget(draggedPiece, allPieces, draggedX, draggedY) ==
    IF ~draggedPiece.faceUp THEN NoSnap
    ELSE SnapScan(draggedPiece, allPieces, draggedX, draggedY, 1, NoSnap)

(***************************************************************************)
(* Placement and locking.                                                  *)
(***************************************************************************)
isPieceCorrectlyPlaced(p) ==
    Dist2(p.x, p.y, p.originalPosition.x, p.originalPosition.y) < Sq(SNAP_DISTANCE)

isGroupCorrectlyPlaced(ps, group) ==
    \A id \in Range(group) :
        PieceById(ps, id).rotation = 0 /\ isPieceCorrectlyPlaced(PieceById(ps, id))

\* Faulty variant of checkAndLockCorrectlyPlacedPieces: the rotation is not
\* looked at.
checkAndLockAnyRotation(ps) ==
    [i \in DOMAIN ps |->
      IF ~ps[i].isLocked /\ isPieceCorrectlyPlaced(ps[i])
      THEN [ps[i] EXCEPT !.isLocked = TRUE]
      ELSE ps[i]]

checkAndLockCorrectlyPlacedPieces(ps) ==
    [i \in DOMAIN ps |->
      IF ~ps[i].isLocked /\ ps[i].rotation = 0 /\ isPieceCorrectlyPlaced(ps[i])
      THEN [ps[i] EXCEPT !.isLocked = TRUE]
      ELSE ps[i]]

RECURSIVE SumSeq(_)
SumSeq(s) == IF s = <<>> THEN 0 ELSE Head(s) + SumSeq(Tail(s))

\* Faulty variant of rotateGroup: the pivot is the mean of the members'
\* top-left corners instead of the mean of their centres.
rotateGroupCornerPivot(ps, group) ==
    IF Len(group) = 0 THEN ps
    ELSE LET n == Len(group)
             centerX == SumSeq([k \in 1 .. n |-> PieceById(ps, group[k]).x]) \div n
             centerY == SumSeq([k \in 1 .. n |-> PieceById(ps, group[k]).y]) \div n
             Turn(p) ==
                 LET dx == (p.x + p.width \div 2) - centerX
                     dy == (p.y + p.height \div 2) - centerY
                     moved == [p EXCEPT !.x = centerX - dy - p.width \div 2,
                                        !.y = centerY + dx - p.height \div 2]
                 IN  IF ~moved.faceUp THEN flip(moved) ELSE rotate90(moved)
         IN  [i \in DOMAIN ps |->
               IF ps[i].id \in Range(group) THEN Turn(ps[i]) ELSE ps[i]]

\* Faulty variant of rotateGroup: a face-down member is flipped and rotated.
rotateGroupFlipAndTurn(ps, group) ==
    IF Len(group) = 0 THEN ps
    ELSE LET n == Len(group)
             centerX == SumSeq([k \in 1 .. n |->
                            PieceById(ps, group[k]).x
                              + PieceById(ps, group[k]).width \div 2]) \div n
             centerY == SumSeq([k \in 1 .. n |->
                            PieceById(ps, group[k]).y
                              + PieceById(ps, group[k]).height \div 2]) \div n
             Turn(p) ==
                 LET dx == (p.x + p.width \div 2) - centerX
                     dy == (p.y + p.height \div 2) - centerY
                     moved == [p EXCEPT !.x = centerX - dy - p.width \div 2,
                                        !.y = centerY + dx - p.height \div 2]
                 IN  IF ~moved.faceUp THEN rotate90(flip(moved)) ELSE rotate90(moved)
         IN  [i \in DOMAIN ps |->
               IF ps[i].id \in Range(group) THEN Turn(ps[i]) ELSE ps[i]]

\* rotateGroup: every member turns a quarter about the centroid of the
\* members' centres; a face-down member is flipped instead of rotated.
rotateGroup(ps, group) ==
    IF Len(group) = 0 THEN ps
    ELSE LET n == Len(group)
             centerX == SumSeq([k \in 1 .. n |->
                            PieceById(ps, group[k]).x
                              + PieceById(ps, group[k]).width \div 2]) \div n
             centerY == SumSeq([k \in 1 .. n |->
                            PieceById(ps, group[k]).y
                              + PieceById(ps, group[k]).height \div 2]) \div n
             Turn(p) ==
                 LET dx == (p.x + p.width \div 2) - centerX
                     dy == (p.y + p.height \div 2) - centerY
                     newDx == 0 - dy
                     newDy == dx
                     moved == [p EXCEPT !.x = centerX + newDx - p.width \div 2,
                                        !.y = centerY + newDy - p.height \div 2]
                 IN  IF ~moved.faceUp THEN flip(moved) ELSE rotate90(moved)
         IN  [i \in DOMAIN ps |->
               IF ps[i].id \in Range(group) THEN Turn(ps[i]) ELSE ps[i]]

(***************************************************************************)
(* The board.  A board value b is the record of the PuzzleBoard's fields;  *)
(* each handler is a function from the board before to the board after.    *)
(***************************************************************************)
VARIABLES
    pieces,                  \* this.pieces, in draw order (last = topmost)
    selectedPiece,           \* id of this.selectedPiece, or Null
    isDragging,
    hasMovedBeyondThreshold,
    pointerDownScreenPos,    \* [x, y] or NullPos
    dragPointerId,           \* pointer id or Null
    panPointerId,            \* pointer id or Null
    panLast,                 \* [x, y] or NullPos
    activePointers,          \* the Map as a sequence of [pointerId, x, y]
    isPinching,
    pinchStart,              \* the pinch record or NoPinch
    camera,                  \* [scale, offsetX, offsetY]
    activeAnimation,         \* the animation record or NoAnimation
    loadPromise,             \* the promise of loadPuzzle: "none" before the call,
                             \* then "pending", then "fulfilled" or "rejected"
    commands,                \* double-taps and flip / rotate commands issued so far
    gameLoop,                \* the fields of the board's GameLoop
    browser,                 \* the clock and the animation-frame requests of the page
    gameState,               \* the fields of the GameStateManager
    touchHandler,            \* the debounce timers of the TouchHandler
    pointerInput,            \* the physical pointers and their raw events
    errorHandling            \* the call of ErrorHandler.withErrorHandling

boardVars == <<pieces, selectedPiece, isDragging, hasMovedBeyondThreshold,
               pointerDownScreenPos, dragPointerId, panPointerId, panLast,
               activePointers, isPinching, pinchStart, camera, activeAnimation,
               loadPromise>>
\* The objects beside the board.
loopVars == <<gameLoop, browser>>
ioVars == <<touchHandler, pointerInput, errorHandling>>
appVars == <<loopVars, gameState, ioVars>>
vars == <<boardVars, commands, appVars>>

\* The field calls is not a field of the PuzzleBoard: it lists, in order, the
\* calls a handler makes to the handlers registered on the board
\* (onProgressUpdate, onPiecesChanged, the onComplete of an animation).  It
\* is empty when a handler starts.
Board ==
    [pieces |-> pieces, selectedPiece |-> selectedPiece, isDragging |-> isDragging,
     hasMovedBeyondThreshold |-> hasMovedBeyondThreshold,
     pointerDownScreenPos |-> pointerDownScreenPos,
     dragPointerId |-> dragPointerId, panPointerId |-> panPointerId,
     panLast |-> panLast, activePointers |-> activePointers,
     isPinching |-> isPinching, pinchStart |-> pinchStart, camera |-> camera,
     activeAnimation |-> activeAnimation, loadPromise |-> loadPromise,
     calls |-> <<>>]

Install(b) ==
    /\ pieces' = b.pieces
    /\ selectedPiece' = b.selectedPiece
    /\ isDragging' = b.isDragging
    /\ hasMovedBeyondThreshold' = b.hasMovedBeyondThreshold
    /\ pointerDownScreenPos' = b.pointerDownScreenPos
    /\ dragPointerId' = b.dragPointerId
    /\ panPointerId' = b.panPointerId
    /\ panLast' = b.panLast
    /\ activePointers' = b.activePointers
    /\ isPinching' = b.isPinching
    /\ pinchStart' = b.pinchStart
    /\ camera' = b.camera
    /\ activeAnimation' = b.activeAnimation
    /\ loadPromise' = b.loadPromise

\* The fields of a freshly constructed board (field initialisers).
NewBoard(ps) ==
    [pieces |-> ps, selectedPiece |-> Null, isDragging |-> FALSE,
     hasMovedBeyondThreshold |-> FALSE, pointerDownScreenPos |-> NullPos,
     dragPointerId |-> Null, panPointerId |-> Null, panLast |-> NullPos,
     activePointers |-> <<>>, isPinching |-> FALSE, pinchStart |-> NoPinch,
     camera |-> [scale |-> SCALE_ONE, offsetX |-> 0, offsetY |-> 0],
     activeAnimation |-> NoAnimation, loadPromise |-> "none", calls |-> <<>>]

(***************************************************************************)
(* Camera.                                                                 *)
(***************************************************************************)
\* The camera scale is kept in quarters: SCALE_ONE stands for the scale 1,
\* MIN_SCALE (0.25) is 1 quarter and MAX_SCALE (4) is 16 quarters.  A scale
\* that is not a number (NaN) is kept as NAN_SCALE.

\* Faulty variant of screenToWorld: the offset is not taken off.
screenToWorldNoOffset(cam, x, y) ==
    [x |-> (x * SCALE_ONE) \div cam.scale,
     y |-> (y * SCALE_ONE) \div cam.scale]

screenToWorld(cam, x, y) ==
    [x |-> ((x - cam.offsetX) * SCALE_ONE) \div cam.scale,
     y |-> ((y - cam.offsetY) * SCALE_ONE) \div cam.scale]

worldToScreen(cam, x, y) ==
    [x |-> (x * cam.scale) \div SCALE_ONE + cam.offsetX,
     y |-> (y * cam.scale) \div SCALE_ONE + cam.offsetY]

clampScale(value) ==
    IF value > MAX_SCALE THEN MAX_SCALE
    ELSE IF value < MIN_SCALE THEN MIN_SCALE
    ELSE value

handlePanMove(b, screenX, screenY) ==
    IF b.panLast = NullPos THEN b
    ELSE [b EXCEPT !.camera.offsetX = @ + (screenX - b.panLast.x),
                   !.camera.offsetY = @ + (screenY - b.panLast.y),
                   !.panLast = [x |-> screenX, y |-> screenY]]

\* Faulty variant of cancelDragIfActive: the drag pointer is kept.
cancelDragKeepPointer(b) ==
    IF b.selectedPiece = Null THEN b
    ELSE [b EXCEPT
           !.pieces = SetPiece(b.pieces, b.selectedPiece,
                        [PieceById(b.pieces, b.selectedPiece) EXCEPT !.isDragging = FALSE]),
           !.isDragging = FALSE,
           !.pointerDownScreenPos = NullPos]

cancelDragIfActive(b) ==
    IF b.selectedPiece = Null THEN b
    ELSE [b EXCEPT
           !.pieces = SetPiece(b.pieces, b.selectedPiece,
                        [PieceById(b.pieces, b.selectedPiece) EXCEPT !.isDragging = FALSE]),
           !.isDragging = FALSE,
           !.hasMovedBeyondThreshold = FALSE,
           !.pointerDownScreenPos = NullPos,
           !.dragPointerId = Null]

\* The pinch keeps the squared distance of the two pointers.
startPinchGesture(b) ==
    IF Len(b.activePointers) < 2 THEN b
    ELSE LET p1 == b.activePointers[1]
             p2 == b.activePointers[2]
             midpoint == [x |-> (p1.x + p2.x) \div 2, y |-> (p1.y + p2.y) \div 2]
         IN  [b EXCEPT
               !.isPinching = TRUE,
               !.pinchStart = [active |-> TRUE,
                               distance2 |-> Dist2(p2.x, p2.y, p1.x, p1.y),
                               midpoint |-> midpoint,
                               scale |-> b.camera.scale,
                               offsetX |-> b.camera.offsetX,
                               offsetY |-> b.camera.offsetY,
                               worldPoint |-> screenToWorld(b.camera, midpoint.x, midpoint.y)]]

(***************************************************************************)
(* Pointer handlers of the board.                                          *)
(***************************************************************************)
\* The candidates of handlePointerDown, topmost first.
RECURSIVE HitCandidates(_, _, _, _)
HitCandidates(ps, i, x, y) ==
    IF i < 1 THEN <<>>
    ELSE IF ~ps[i].isLocked /\ containsPoint(ps[i], x, y)
         THEN <<[piece |-> ps[i].id,
                 groupSize |-> Len(getAllPiecesInGroup(ps, ps[i].id))]>>
                \o HitCandidates(ps, i - 1, x, y)
         ELSE HitCandidates(ps, i - 1, x, y)

\* Faulty variant of SmallestCandidate: the topmost candidate, whatever the
\* size of its group.
TopmostCandidate(candidates) == candidates[1]

\* candidates.sort((a, b) => a.groupSize - b.groupSize)[0]: the sort is
\* stable, so the first candidate of minimal group size.
SmallestCandidate(candidates) ==
    LET k == CHOOSE k \in DOMAIN candidates :
                 /\ \A j \in DOMAIN candidates :
                        candidates[k].groupSize <= candidates[j].groupSize
                 /\ \A j \in 1 .. (k - 1) :
                        candidates[j].groupSize > candidates[k].groupSize
    IN  candidates[k]

handlePointerDown(b, x, y, screenX, screenY, pointerId) ==
    IF b.activeAnimation # NoAnimation THEN b
    ELSE LET candidates == HitCandidates(b.pieces, Len(b.pieces), x, y)
             b1 == IF candidates # <<>>
                   THEN LET newSelected == SmallestCandidate(candidates).piece
                        IN  IF b.selectedPiece = newSelected
                            THEN [b EXCEPT !.selectedPiece = Null]
                            ELSE LET front == bringToFront(b.pieces, newSelected)
                                     sel == PieceById(front, newSelected)
                                 IN  [b EXCEPT
                                       !.selectedPiece = newSelected,
                                       !.pieces = SetPiece(front, newSelected,
                                          [sel EXCEPT !.dragOffset =
                                             [x |-> x - sel.x, y |-> y - sel.y]])]
                   ELSE [b EXCEPT !.selectedPiece = Null]
             b2 == [b1 EXCEPT !.isDragging = FALSE,
                              !.hasMovedBeyondThreshold = FALSE,
                              !.pointerDownScreenPos = [x |-> screenX, y |-> screenY]]
         IN  IF b2.selectedPiece # Null
             THEN [b2 EXCEPT !.dragPointerId = pointerId,
                             !.panPointerId = Null,
                             !.panLast = NullPos]
             ELSE [b2 EXCEPT !.dragPointerId = Null,
                             !.panPointerId = pointerId,
                             !.panLast = [x |-> screenX, y |-> screenY]]

\* Faulty variant of DragGroupTo: only the selected piece moves.
DragSelectedOnly(ps, selected, x, y) ==
    LET sel == PieceById(ps, selected)
    IN  SetPiece(ps, selected, [sel EXCEPT !.x = x - sel.dragOffset.x,
                                           !.y = y - sel.dragOffset.y])

\* The rigid translation of handlePointerMove.
DragGroupTo(ps, selected, x, y) ==
    LET sel == PieceById(ps, selected)
        newX == x - sel.dragOffset.x
        newY == y - sel.dragOffset.y
        deltaX == newX - sel.x
        deltaY == newY - sel.y
        moved == SetPiece(ps, selected, [sel EXCEPT !.x = newX, !.y = newY])
        group == Range(getAllPiecesInGroup(moved, selected))
    IN  [i \in DOMAIN moved |->
          IF moved[i].id \in group /\ moved[i].id # selected
          THEN [moved[i] EXCEPT !.x = @ + deltaX, !.y = @ + deltaY]
          ELSE moved[i]]

\* Faulty variant of handlePointerMove: the drag starts at the threshold
\* distance already.
handlePointerMoveAtThreshold(b, x, y, screenX, screenY) ==
    IF b.activeAnimation # NoAnimation THEN b
    ELSE IF b.selectedPiece = Null THEN b
    ELSE LET starts ==
                 /\ ~b.hasMovedBeyondThreshold
                 /\ b.pointerDownScreenPos # NullPos
                 /\ Dist2(screenX, screenY,
                          b.pointerDownScreenPos.x, b.pointerDownScreenPos.y)
                        >= Sq(DRAG_THRESHOLD)
             b1 == IF starts
                   THEN LET sel == PieceById(b.pieces, b.selectedPiece)
                        IN  [b EXCEPT
                              !.hasMovedBeyondThreshold = TRUE,
                              !.isDragging = TRUE,
                              !.pieces = bringToFront(
                                  SetPiece(b.pieces, b.selectedPiece,
                                           [sel EXCEPT !.isDragging = TRUE]),
                                  b.selectedPiece)]
                   ELSE b
         IN  IF b1.isDragging
             THEN [b1 EXCEPT !.pieces = DragGroupTo(b1.pieces, b1.selectedPiece, x, y)]
             ELSE b1

handlePointerMove(b, x, y, screenX, screenY) ==
    IF b.activeAnimation # NoAnimation THEN b
    ELSE IF b.selectedPiece = Null THEN b
    ELSE LET starts ==
                 /\ ~b.hasMovedBeyondThreshold
                 /\ b.pointerDownScreenPos # NullPos
                 /\ Dist2(screenX, screenY,
                          b.pointerDownScreenPos.x, b.pointerDownScreenPos.y)
                        > Sq(DRAG_THRESHOLD)
             b1 == IF starts
                   THEN LET sel == PieceById(b.pieces, b.selectedPiece)
                        IN  [b EXCEPT
                              !.hasMovedBeyondThreshold = TRUE,
                              !.isDragging = TRUE,
                              !.pieces = bringToFront(
                                  SetPiece(b.pieces, b.selectedPiece,
                                           [sel EXCEPT !.isDragging = TRUE]),
                                  b.selectedPiece)]
                   ELSE b
         IN  IF b1.isDragging
             THEN [b1 EXCEPT !.pieces = DragGroupTo(b1.pieces, b1.selectedPiece, x, y)]
             ELSE b1

\* The loop of handlePointerUp over the dragged group: the best snap is
\* replaced only by a strictly nearer one.
RECURSIVE BestSnapScan(_, _, _, _)
BestSnapScan(ps, draggedGroup, k, bestSnap) ==
    IF k > Len(draggedGroup) THEN bestSnap
    ELSE LET groupPiece == PieceById(ps, draggedGroup[k])
             snapTarget == findSnapTarget(groupPiece, ps, groupPiece.x, groupPiece.y)
         IN  IF /\ snapTarget # NoSnap
                /\ (bestSnap = NoSnap
                      \/ snapTarget.distance2 < bestSnap.snapTarget.distance2)
             THEN BestSnapScan(ps, draggedGroup, k + 1,
                               [found |-> TRUE, snapTarget |-> snapTarget,
                                groupPiece |-> groupPiece.id])
             ELSE BestSnapScan(ps, draggedGroup, k + 1, bestSnap)

BestSnap(ps, selected) ==
    BestSnapScan(ps, getAllPiecesInGroup(ps, selected), 1, NoSnap)

\* connectedPieces.add on both pieces of the snap.
Connect(ps, idA, idB) ==
    [i \in DOMAIN ps |->
      IF ps[i].id = idA THEN [ps[i] EXCEPT !.connectedPieces = AddId(@, idB)]
      ELSE IF ps[i].id = idB THEN [ps[i] EXCEPT !.connectedPieces = AddId(@, idA)]
      ELSE ps[i]]

LockGroup(ps, group) ==
    [i \in DOMAIN ps |->
      IF ps[i].id \in Range(group) THEN [ps[i] EXCEPT !.isLocked = TRUE] ELSE ps[i]]

\* Faulty variant of ApplySnap: only the matched piece is moved to the snap
\* position, the rest of the dragged group stays where it was dropped.
ApplySnapMatchedOnly(ps, selected, bestSnap) ==
    LET groupPiece == PieceById(ps, bestSnap.groupPiece)
        moved == SetPiece(ps, bestSnap.groupPiece,
                          [groupPiece EXCEPT !.x = bestSnap.snapTarget.snapX,
                                             !.y = bestSnap.snapTarget.snapY])
        connected == Connect(moved, bestSnap.groupPiece, bestSnap.snapTarget.targetPiece)
        merged == mergeGroups(connected, bestSnap.groupPiece,
                              bestSnap.snapTarget.targetPiece)
        snappedGroup == getAllPiecesInGroup(merged, selected)
    IN  IF isGroupCorrectlyPlaced(merged, snappedGroup)
        THEN LockGroup(merged, snappedGroup)
        ELSE merged

\* The `if (bestSnap)` branch of handlePointerUp.
ApplySnap(ps, selected, bestSnap) ==
    LET draggedGroup == Range(getAllPiecesInGroup(ps, selected))
        groupPiece == PieceById(ps, bestSnap.groupPiece)
        deltaX == bestSnap.snapTarget.snapX - groupPiece.x
        deltaY == bestSnap.snapTarget.snapY - groupPiece.y
        moved == [i \in DOMAIN ps |->
                   IF ps[i].id \in draggedGroup
                   THEN [ps[i] EXCEPT !.x = @ + deltaX, !.y = @ + deltaY]
                   ELSE ps[i]]
        connected == Connect(moved, bestSnap.groupPiece, bestSnap.snapTarget.targetPiece)
        merged == mergeGroups(connected, bestSnap.groupPiece,
                              bestSnap.snapTarget.targetPiece)
        snappedGroup == getAllPiecesInGroup(merged, selected)
    IN  IF isGroupCorrectlyPlaced(merged, snappedGroup)
        THEN LockGroup(merged, snappedGroup)
        ELSE merged

\* The for loop of getLargestClusterSize over the draw order.
RECURSIVE ClusterScan(_, _, _, _)
ClusterScan(ps, i, visited, largestSize) ==
    IF i > Len(ps) THEN largestSize
    ELSE IF ps[i].id \in visited THEN ClusterScan(ps, i + 1, visited, largestSize)
    ELSE LET cluster == getAllPiecesInGroup(ps, ps[i].id)
         IN  ClusterScan(ps, i + 1, visited \cup Range(cluster),
                         IF Len(cluster) > largestSize THEN Len(cluster)
                         ELSE largestSize)

\* Faulty variant of getLargestClusterSize: the size of the cluster of the
\* last piece of the draw order, not the greatest size.
getLargestClusterSizeOfLast(ps) ==
    IF Len(ps) = 0 THEN 0 ELSE Len(getAllPiecesInGroup(ps, ps[Len(ps)].id))

getLargestClusterSize(ps) == ClusterScan(ps, 1, {}, 0)

\* updateProgress calls the progress handler of the board.
updateProgress(b) ==
    [b EXCEPT !.calls = Append(@, [name |-> "onProgressUpdate",
                                   largest |-> getLargestClusterSize(b.pieces),
                                   total |-> Len(b.pieces)])]

\* A call of the pieces-changed handler of the board.
onPiecesChanged(b) ==
    [b EXCEPT !.calls = Append(@, [name |-> "onPiecesChanged"])]

\* The end of handlePointerUp, after the `if (this.selectedPiece)` block: the
\* correctly placed pieces are locked, the progress is reported and the drag
\* flags are reset.
EndOfPointerUp(b) ==
    [updateProgress([b EXCEPT !.pieces = checkAndLockCorrectlyPlacedPieces(@)])
        EXCEPT !.isDragging = FALSE,
               !.pointerDownScreenPos = NullPos,
               !.hasMovedBeyondThreshold = FALSE]

\* The `if (this.hasMovedBeyondThreshold)` block of handlePointerUp: ps0 is
\* the piece list with the selected piece not dragging any more, bestSnap the
\* snap it finds.
DropSelected(b, ps0, bestSnap) ==
    [updateProgress([b EXCEPT !.pieces = IF bestSnap # NoSnap
                                         THEN ApplySnap(ps0, b.selectedPiece, bestSnap)
                                         ELSE ps0])
        EXCEPT !.selectedPiece = Null]

\* The `if (this.selectedPiece)` block of handlePointerUp.
ReleaseSelected(b, ps0) ==
    IF b.hasMovedBeyondThreshold
    THEN DropSelected(b, ps0, BestSnap(ps0, b.selectedPiece))
    ELSE [b EXCEPT !.pieces = ps0]

handlePointerUp(b) ==
    IF b.activeAnimation # NoAnimation THEN b
    ELSE EndOfPointerUp(
             IF b.selectedPiece = Null THEN b
             ELSE ReleaseSelected(
                      b, SetPiece(b.pieces, b.selectedPiece,
                                  [PieceById(b.pieces, b.selectedPiece)
                                      EXCEPT !.isDragging = FALSE])))

\* What the release handler of the board b finds: the best snap, when the
\* release processes a drop.
SnapOfRelease(b) ==
    IF /\ b.activeAnimation = NoAnimation
       /\ b.selectedPiece # Null
       /\ b.hasMovedBeyondThreshold
    THEN BestSnap(b.pieces, b.selectedPiece)
    ELSE NoSnap

(***************************************************************************)
(* Pointer events delivered by the TouchHandler.                           *)
(***************************************************************************)
PointerIndex(ap, pointerId) ==
    IF \E i \in DOMAIN ap : ap[i].pointerId = pointerId
    THEN CHOOSE i \in DOMAIN ap : ap[i].pointerId = pointerId
    ELSE 0

\* Map.set: a new key is appended, an existing key keeps its place.
SetPointer(ap, pointerId, x, y) ==
    IF PointerIndex(ap, pointerId) = 0
    THEN Append(ap, [pointerId |-> pointerId, x |-> x, y |-> y])
    ELSE [ap EXCEPT ![PointerIndex(ap, pointerId)] =
              [pointerId |-> pointerId, x |-> x, y |-> y]]

DeletePointer(ap, pointerId) == SelectSeq(ap, LAMBDA e : e.pointerId # pointerId)

onPointerStart(b, pointerId, x, y) ==
    LET b1 == [b EXCEPT !.activePointers = SetPointer(@, pointerId, x, y)]
        world == screenToWorld(b1.camera, x, y)
    IN  IF Len(b1.activePointers) = 2
        THEN startPinchGesture(cancelDragIfActive(b1))
        ELSE IF b1.isPinching THEN b1
        ELSE handlePointerDown(b1, world.x, world.y, x, y, pointerId)

\* The integer square root, for the distance of the two pinch pointers: the
\* greatest r with r * r <= n, found by bisection.
RECURSIVE IsqrtSearch(_, _, _)
IsqrtSearch(n, lo, hi) ==
    IF lo >= hi THEN lo
    ELSE LET mid == (lo + hi + 1) \div 2
         IN  IF mid * mid <= n THEN IsqrtSearch(n, mid, hi)
             ELSE IsqrtSearch(n, lo, mid - 1)

Isqrt(n) == IsqrtSearch(n, 0, IF n < 40000 THEN n ELSE 40000)

\* updatePinchGesture: distance / pinchStart.distance is Infinity for a zero
\* start distance and NaN for 0 / 0; clampScale keeps NaN.
updatePinchGesture(b) ==
    IF b.pinchStart = NoPinch THEN b
    ELSE IF Len(b.activePointers) < 2 THEN b
    ELSE LET p1 == b.activePointers[1]
             p2 == b.activePointers[2]
             midpoint == [x |-> (p1.x + p2.x) \div 2, y |-> (p1.y + p2.y) \div 2]
             distance == Isqrt(Dist2(p2.x, p2.y, p1.x, p1.y))
             startDistance == Isqrt(b.pinchStart.distance2)
             newScale ==
                 IF startDistance = 0
                 THEN IF distance = 0 THEN NAN_SCALE ELSE MAX_SCALE
                 ELSE clampScale((b.pinchStart.scale * distance) \div startDistance)
         IN  [b EXCEPT
               !.camera = [scale |-> newScale,
                           offsetX |-> midpoint.x
                               - (b.pinchStart.worldPoint.x * newScale) \div SCALE_ONE,
                           offsetY |-> midpoint.y
                               - (b.pinchStart.worldPoint.y * newScale) \div SCALE_ONE]]

onPointerMove(b, pointerId, x, y) ==
    LET b1 == IF PointerIndex(b.activePointers, pointerId) # 0
              THEN [b EXCEPT !.activePointers = SetPointer(@, pointerId, x, y)]
              ELSE b
        world == screenToWorld(b1.camera, x, y)
    IN  IF Len(b1.activePointers) = 2 THEN updatePinchGesture(b1)
        ELSE IF b1.isPinching THEN b1
        ELSE IF b1.dragPointerId = pointerId /\ b1.selectedPiece # Null
             THEN handlePointerMove(b1, world.x, world.y, x, y)
        ELSE IF b1.panPointerId = pointerId THEN handlePanMove(b1, x, y)
        ELSE b1

onPointerEnd(b, pointerId) ==
    LET b1 == [b EXCEPT !.activePointers = DeletePointer(@, pointerId)]
        b2 == IF b1.isPinching /\ Len(b1.activePointers) < 2
              THEN [b1 EXCEPT !.isPinching = FALSE, !.pinchStart = NoPinch]
              ELSE b1
        b3 == IF b2.dragPointerId = pointerId
              THEN [handlePointerUp(b2) EXCEPT !.dragPointerId = Null]
              ELSE b2
    IN  IF b3.panPointerId = pointerId
        THEN [b3 EXCEPT !.panPointerId = Null, !.panLast = NullPos]
        ELSE b3

\* The topmost piece that contains the point, or Null.
RECURSIVE TopmostAt(_, _, _, _)
TopmostAt(ps, i, x, y) ==
    IF i < 1 THEN Null
    ELSE IF containsPoint(ps[i], x, y) THEN ps[i].id
    ELSE TopmostAt(ps, i - 1, x, y)

\* rotateGroup ends with the call of the pieces-changed handler.
onDoubleTap(b, x, y) ==
    IF b.isPinching THEN b
    ELSE LET world == screenToWorld(b.camera, x, y)
             hit == TopmostAt(b.pieces, Len(b.pieces), world.x, world.y)
         IN  IF hit = Null THEN b
             ELSE onPiecesChanged(
                      [b EXCEPT !.pieces = rotateGroup(@, getAllPiecesInGroup(@, hit))])

flipSelectedPiece(b) ==
    IF b.selectedPiece = Null THEN b
    ELSE onPiecesChanged(
             [b EXCEPT !.pieces = SetPiece(@, b.selectedPiece,
                                      flip(PieceById(@, b.selectedPiece)))])

rotateSelectedPiece(b) ==
    IF b.selectedPiece # Null /\ PieceById(b.pieces, b.selectedPiece).faceUp
    THEN onPiecesChanged(
             [b EXCEPT !.pieces = SetPiece(@, b.selectedPiece,
                                      rotate90(PieceById(@, b.selectedPiece)))])
    ELSE b

(***************************************************************************)
(* The animation engine.  Time is kept as the progress of the animation:   *)
(* update is given the progress 0 (no time has passed) or 1 (the duration  *)
(* has passed), where the easing is the identity.                          *)
(***************************************************************************)
STATUS_BAR_HEIGHT == 40
FIT_PADDING == 48

\* The size of the canvas.
CanvasWidth == 1356
CanvasHeight == 766

Min(a, b) == IF a < b THEN a ELSE b
Max(a, b) == IF a > b THEN a ELSE b

getGroupCentroid(ps) ==
    [x |-> SumSeq([k \in DOMAIN ps |-> ps[k].x + ps[k].width \div 2]) \div Len(ps),
     y |-> SumSeq([k \in DOMAIN ps |-> ps[k].y + ps[k].height \div 2]) \div Len(ps)]

rotatePoint(point, center, degrees) ==
    LET v == rotateVector(point.x - center.x, point.y - center.y, degrees)
    IN  [x |-> center.x + v.x, y |-> center.y + v.y]

normalizeRotation(degrees) == degrees % 360

\* The bounds of the target places, as sets of the values Math.min and
\* Math.max run over.
getPiecesBounds(ps, targetPieces) ==
    LET xs == {targetPieces[ps[i].id].x : i \in DOMAIN ps}
        ys == {targetPieces[ps[i].id].y : i \in DOMAIN ps}
        rs == {targetPieces[ps[i].id].x + ps[i].width : i \in DOMAIN ps}
        bs == {targetPieces[ps[i].id].y + ps[i].height : i \in DOMAIN ps}
    IN  [minX |-> CHOOSE v \in xs : \A w \in xs : v <= w,
         minY |-> CHOOSE v \in ys : \A w \in ys : v <= w,
         maxX |-> CHOOSE v \in rs : \A w \in rs : v >= w,
         maxY |-> CHOOSE v \in bs : \A w \in bs : v >= w]

getFitCamera(bounds) ==
    LET viewWidth == CanvasWidth - FIT_PADDING * 2
        viewHeight == CanvasHeight - STATUS_BAR_HEIGHT - FIT_PADDING * 2
        boundsWidth == Max(1, bounds.maxX - bounds.minX)
        boundsHeight == Max(1, bounds.maxY - bounds.minY)
        scale == clampScale(Min((viewWidth * SCALE_ONE) \div boundsWidth,
                                (viewHeight * SCALE_ONE) \div boundsHeight))
        centerX == (bounds.minX + bounds.maxX) \div 2
        centerY == (bounds.minY + bounds.maxY) \div 2
        viewCenterX == CanvasWidth \div 2
        viewCenterY == (CanvasHeight - STATUS_BAR_HEIGHT) \div 2
    IN  [scale |-> scale,
         offsetX |-> viewCenterX - (centerX * scale) \div SCALE_ONE,
         offsetY |-> viewCenterY - (centerY * scale) \div SCALE_ONE]

\* A call of the completion callback `callback` of an animation, on the board
\* b it finds.  "normalize" is the callback animateCompletionNormalize gives
\* animateToState: it sets every rotation to 0, calls the pieces-changed
\* handler and then the caller's callback; "normalizeDone" is that caller's
\* callback alone.
completionCallback(b, callback) ==
    LET b1 == IF callback = "normalize"
              THEN onPiecesChanged(
                       [b EXCEPT !.pieces = [i \in DOMAIN @ |->
                                               [@[i] EXCEPT !.rotation = 0]]])
              ELSE b
    IN  [b1 EXCEPT !.calls = Append(@, [name |-> "onComplete",
                                        activeAnimation |-> b.activeAnimation])]

animateToState(b, targetPieces, targetCamera, onComplete) ==
    [b EXCEPT !.activeAnimation =
        [active |-> TRUE,
         startPieces |-> [id \in {b.pieces[i].id : i \in DOMAIN b.pieces} |->
                            LET p == PieceById(b.pieces, id)
                            IN  [x |-> p.x, y |-> p.y, rotation |-> p.rotation]],
         targetPieces |-> targetPieces,
         startCamera |-> b.camera,
         targetCamera |-> targetCamera,
         onComplete |-> onComplete]]

\* Faulty variant of animateCompletionNormalize: the puzzle is turned on by
\* the rotation of the first piece instead of back.
animateCompletionNormalizeTurnForward(b) ==
    IF Len(b.pieces) = 0 THEN completionCallback(b, "normalizeDone")
    ELSE LET b1 == [b EXCEPT !.selectedPiece = Null]
             ps == b1.pieces
             solutionRotation == normalizeRotation(ps[1].rotation)
             centroid == getGroupCentroid(ps)
             Rotated(p) ==
                 LET rotatedCenter ==
                         rotatePoint([x |-> p.x + p.width \div 2,
                                      y |-> p.y + p.height \div 2],
                                     centroid, solutionRotation)
                 IN  [x |-> rotatedCenter.x - p.width \div 2,
                      y |-> rotatedCenter.y - p.height \div 2]
             anchor == ps[1]
             dx == anchor.originalPosition.x - Rotated(anchor).x
             dy == anchor.originalPosition.y - Rotated(anchor).y
             targetPieces ==
                 [id \in {ps[i].id : i \in DOMAIN ps} |->
                     [x |-> Rotated(PieceById(ps, id)).x + dx,
                      y |-> Rotated(PieceById(ps, id)).y + dy,
                      rotation |-> 0]]
         IN  animateToState(b1, targetPieces,
                            getFitCamera(getPiecesBounds(ps, targetPieces)),
                            "normalize")

\* animateCompletionNormalize: the targets turn the whole puzzle back by the
\* rotation of the first piece of the draw order and put that piece at its
\* solved place; its onComplete callback sets every rotation to 0.
animateCompletionNormalize(b) ==
    IF Len(b.pieces) = 0 THEN completionCallback(b, "normalizeDone")
    ELSE LET b1 == [b EXCEPT !.selectedPiece = Null]
             ps == b1.pieces
             solutionRotation == normalizeRotation(ps[1].rotation)
             centroid == getGroupCentroid(ps)
             Rotated(p) ==
                 LET rotatedCenter ==
                         rotatePoint([x |-> p.x + p.width \div 2,
                                      y |-> p.y + p.height \div 2],
                                     centroid, 360 - solutionRotation)
                 IN  [x |-> rotatedCenter.x - p.width \div 2,
                      y |-> rotatedCenter.y - p.height \div 2]
             anchor == ps[1]
             dx == anchor.originalPosition.x - Rotated(anchor).x
             dy == anchor.originalPosition.y - Rotated(anchor).y
             targetPieces ==
                 [id \in {ps[i].id : i \in DOMAIN ps} |->
                     [x |-> Rotated(PieceById(ps, id)).x + dx,
                      y |-> Rotated(PieceById(ps, id)).y + dy,
                      rotation |-> 0]]
         IN  animateToState(b1, targetPieces,
                            getFitCamera(getPiecesBounds(ps, targetPieces)),
                            "normalize")

\* The board after the animation's pieces and camera are put at the targets.
Landed(b) ==
    LET a == b.activeAnimation
    IN  [b EXCEPT
          !.pieces = [i \in DOMAIN b.pieces |->
                        [b.pieces[i] EXCEPT
                            !.x = a.targetPieces[b.pieces[i].id].x,
                            !.y = a.targetPieces[b.pieces[i].id].y,
                            !.rotation = a.targetPieces[b.pieces[i].id].rotation]],
          !.camera = a.targetCamera]

\* Faulty variant of finishAnimation: the callback runs before the animation
\* is cleared.
finishAnimationCallbackFirst(b) ==
    IF b.activeAnimation = NoAnimation THEN b
    ELSE [completionCallback(Landed(b), b.activeAnimation.onComplete)
             EXCEPT !.activeAnimation = NoAnimation]

finishAnimation(b) ==
    IF b.activeAnimation = NoAnimation THEN b
    ELSE completionCallback([Landed(b) EXCEPT !.activeAnimation = NoAnimation],
                            b.activeAnimation.onComplete)

lerp(start, end, t) == start + (end - start) * t

\* Faulty variant of lerpAngle: the plain difference of the two rotations.
lerpAngleLinear(start, end, t) == start + (end - start) * t

lerpAngle(start, end, t) ==
    LET delta == ((end - start + 540) % 360) - 180
    IN  start + delta * t

\* update at the progress 0 or 1.
update(b, progress) ==
    IF b.activeAnimation = NoAnimation THEN b
    ELSE LET a == b.activeAnimation
             b1 == [b EXCEPT
                     !.pieces = [i \in DOMAIN b.pieces |->
                        LET start == a.startPieces[b.pieces[i].id]
                            target == a.targetPieces[b.pieces[i].id]
                        IN  [b.pieces[i] EXCEPT
                               !.x = lerp(start.x, target.x, progress),
                               !.y = lerp(start.y, target.y, progress),
                               !.rotation = lerpAngle(start.rotation, target.rotation,
                                                      progress)]],
                     !.camera = [scale |-> lerp(a.startCamera.scale,
                                                a.targetCamera.scale, progress),
                                 offsetX |-> lerp(a.startCamera.offsetX,
                                                  a.targetCamera.offsetX, progress),
                                 offsetY |-> lerp(a.startCamera.offsetY,
                                                  a.targetCamera.offsetY, progress)]]
         IN  IF progress >= 1 THEN finishAnimation(b1) ELSE b1

(***************************************************************************)
(* Loading and restoring a puzzle, and the view commands.                  *)
(***************************************************************************)
\* selectedPiece when it holds a piece object that is not in the piece list
\* any more: a piece of a list that loadPuzzle has replaced.
ReplacedPiece == -2

resetInteractionState(b) ==
    [b EXCEPT !.selectedPiece = Null,
              !.isDragging = FALSE,
              !.hasMovedBeyondThreshold = FALSE,
              !.pointerDownScreenPos = NullPos,
              !.dragPointerId = Null,
              !.panPointerId = Null,
              !.panLast = NullPos,
              !.activePointers = <<>>,
              !.isPinching = FALSE,
              !.pinchStart = NoPinch,
              !.activeAnimation = NoAnimation,
              !.camera = [scale |-> SCALE_ONE, offsetX |-> 0, offsetY |-> 0]]

\* loadPuzzle up to its first await: the interaction state is reset and the
\* image is requested.
loadPuzzleStart(b) == [resetInteractionState(b) EXCEPT !.loadPromise = "pending"]

\* loadPuzzle after its awaits: the generated pieces ps are assigned to
\* this.pieces.  No other field is written, so a selectedPiece set while the
\* load was pending keeps a piece of the replaced list.
loadPuzzleInstall(b, ps) ==
    [b EXCEPT !.pieces = ps,
              !.selectedPiece = IF @ = Null THEN Null ELSE ReplacedPiece,
              !.loadPromise = "fulfilled"]

\* loadPuzzle when the image fails to load: the catch block logs the error
\* and throws it again, which rejects the promise the caller awaits.
loadPuzzleFail(b) ==
    [b EXCEPT !.loadPromise = "rejected"]

restorePieces(b, ps) == resetInteractionState([b EXCEPT !.pieces = ps])

resetView(b) ==
    [b EXCEPT !.camera = [scale |-> SCALE_ONE, offsetX |-> 0, offsetY |-> 0]]

fitViewToPieces(b) ==
    IF Len(b.pieces) = 0 THEN b
    ELSE LET targets == [id \in {b.pieces[i].id : i \in DOMAIN b.pieces} |->
                            LET p == PieceById(b.pieces, id)
                            IN  [x |-> p.x, y |-> p.y, rotation |-> p.rotation]]
         IN  [b EXCEPT !.camera = getFitCamera(getPiecesBounds(b.pieces, targets))]

\* Faulty variant of zoomAtScreenPoint: the offset is computed with the old
\* scale.
zoomAtScreenPointOldScale(b, screenX, screenY, scaleFactor) ==
    LET worldPoint == screenToWorld(b.camera, screenX, screenY)
        newScale == clampScale((b.camera.scale * scaleFactor.num) \div scaleFactor.den)
    IN  IF newScale = b.camera.scale THEN b
        ELSE [b EXCEPT
               !.camera = [scale |-> newScale,
                           offsetX |-> screenX
                               - (worldPoint.x * b.camera.scale) \div SCALE_ONE,
                           offsetY |-> screenY
                               - (worldPoint.y * b.camera.scale) \div SCALE_ONE]]

\* zoomAtScreenPoint; the scale factor Math.exp(-deltaY * zoomIntensity) of
\* the wheel handler is kept as the fraction num / den.
zoomAtScreenPoint(b, screenX, screenY, scaleFactor) ==
    LET worldPoint == screenToWorld(b.camera, screenX, screenY)
        newScale == clampScale((b.camera.scale * scaleFactor.num) \div scaleFactor.den)
    IN  IF newScale = b.camera.scale THEN b
        ELSE [b EXCEPT
               !.camera = [scale |-> newScale,
                           offsetX |-> screenX - (worldPoint.x * newScale) \div SCALE_ONE,
                           offsetY |-> screenY - (worldPoint.y * newScale) \div SCALE_ONE]]

(***************************************************************************)
(* The GameLoop of the board (src/unnamed/part_002) and the page's clock   *)
(* and animation-frame requests.  Time is counted in thirds of a           *)
(* millisecond, so that the frame interval 1000 / 60 ms is the integer 50. *)
(* An application value a is the record of the GameLoop's fields, the      *)
(* page and the calls made to the callbacks; each method is a function     *)
(* from the application before to the application after.                   *)
(***************************************************************************)
TARGET_FPS == 60
TicksPerMs == 3

\* The constructor: field initialisers and frameInterval = 1000 / targetFPS.
NewGameLoop(targetFPS) ==
    [running |-> FALSE, animationFrameId |-> Null, lastTime |-> 0,
     frameInterval |-> (1000 * TicksPerMs) \div targetFPS, accumulator |-> 0]

\* The page: performance.now(), the requested frames that have neither fired
\* nor been cancelled, and the id the next request gets.
NewBrowser == [now |-> 0, frames |-> {}, nextFrameId |-> 1]

App == [gameLoop |-> gameLoop, browser |-> browser, calls |-> <<>>]

Adopt(a) ==
    /\ gameLoop' = a.gameLoop
    /\ browser' = a.browser

\* requestAnimationFrame(this.loop), the id stored in animationFrameId.
requestAnimationFrame(a) ==
    [a EXCEPT !.gameLoop.animationFrameId = a.browser.nextFrameId,
              !.browser.frames = @ \cup {a.browser.nextFrameId},
              !.browser.nextFrameId = @ + 1]

cancelAnimationFrame(a, id) == [a EXCEPT !.browser.frames = @ \ {id}]

\* The while loop of loop: one update of the fixed step per whole interval.
RECURSIVE UpdateSteps(_)
UpdateSteps(a) ==
    IF a.gameLoop.accumulator >= a.gameLoop.frameInterval
    THEN UpdateSteps([a EXCEPT
                        !.calls = Append(@, [name |-> "update",
                                             deltaTime |-> a.gameLoop.frameInterval]),
                        !.gameLoop.accumulator = @ - a.gameLoop.frameInterval])
    ELSE a

\* Faulty variant of loop: a variable step, one update of the elapsed time.
loopVariableStep(a) ==
    IF ~a.gameLoop.running THEN a
    ELSE requestAnimationFrame(
             [a EXCEPT !.calls = <<[name |-> "update",
                                    deltaTime |-> a.browser.now - a.gameLoop.lastTime],
                                   [name |-> "render"]>>,
                       !.gameLoop.lastTime = a.browser.now])

loop(a) ==
    IF ~a.gameLoop.running THEN a
    ELSE requestAnimationFrame(
             [UpdateSteps([a EXCEPT !.gameLoop.accumulator =
                                       @ + (a.browser.now - a.gameLoop.lastTime)])
                 EXCEPT !.calls = Append(@, [name |-> "render"]),
                        !.gameLoop.lastTime = a.browser.now])

start(a) ==
    IF a.gameLoop.running THEN a
    ELSE loop([a EXCEPT !.gameLoop.running = TRUE,
                        !.gameLoop.lastTime = a.browser.now])

stop(a) ==
    IF ~a.gameLoop.running THEN a
    ELSE IF a.gameLoop.animationFrameId # Null
         THEN [cancelAnimationFrame(a, a.gameLoop.animationFrameId)
                  EXCEPT !.gameLoop.running = FALSE,
                         !.gameLoop.animationFrameId = Null]
         ELSE [a EXCEPT !.gameLoop.running = FALSE]

setTargetFPS(a, fps) ==
    [a EXCEPT !.gameLoop.frameInterval = (1000 * TicksPerMs) \div fps]

\* The page runs the callback of the requested frame id.
FrameFired(a, id) == loop([a EXCEPT !.browser.frames = @ \ {id}])

(***************************************************************************)
(* The GameStateManager (src/unnamed/part_008; its earlier variant         *)
(* src/unnamed/part_007 differs in the difficulty table and in how the     *)
(* handlers are registered).  A value g is the record of its fields and    *)
(* the events it has emitted since the method started.                     *)
(***************************************************************************)
\* The difficulty table of src/unnamed/part_007.
DIFFICULTIES ==
    { [name |-> "Easy", rows |-> 4, cols |-> 4, totalPieces |-> 16],
      [name |-> "Medium", rows |-> 10, cols |-> 10, totalPieces |-> 100],
      [name |-> "Hard", rows |-> 16, cols |-> 16, totalPieces |-> 250] }

\* The difficulty table of src/unnamed/part_008.
DIFFICULTIES_PART_008 ==
    { [name |-> "Easy", rows |-> 4, cols |-> 4, totalPieces |-> 16],
      [name |-> "Medium", rows |-> 6, cols |-> 6, totalPieces |-> 36],
      [name |-> "Hard", rows |-> 8, cols |-> 8, totalPieces |-> 64] }

NoStats == [isNull |-> TRUE]
NoEndTime == Null
NoPuzzleConfig == [isNull |-> TRUE]

\* The constructor and the field initialisers; the default difficulty is
\* DIFFICULTIES[0].
NewGameStateManager ==
    [currentState |-> "menu",
     difficulty |-> [name |-> "Easy", rows |-> 4, cols |-> 4, totalPieces |-> 16],
     stats |-> NoStats,
     puzzleConfig |-> NoPuzzleConfig]

GameState ==
    [currentState |-> gameState.currentState, difficulty |-> gameState.difficulty,
     stats |-> gameState.stats, puzzleConfig |-> gameState.puzzleConfig,
     emitted |-> <<>>]

AdoptGameState(g) ==
    gameState' = [currentState |-> g.currentState, difficulty |-> g.difficulty,
                  stats |-> g.stats, puzzleConfig |-> g.puzzleConfig]

emit(g, event) == [g EXCEPT !.emitted = Append(@, event)]

StateChanged(state) == [name |-> "game:state-changed", state |-> state]
StatsUpdated == [name |-> "game:stats-updated"]
ProgressUpdated == [name |-> "game:progress-updated"]

updateSettings(g, difficulty) == [g EXCEPT !.difficulty = difficulty]

startGame(g, totalPieces, now) ==
    emit(emit([g EXCEPT !.currentState = "playing",
                        !.stats = [isNull |-> FALSE, startTime |-> now,
                                   piecesPlaced |-> 0, totalPieces |-> totalPieces,
                                   endTime |-> NoEndTime]],
              StateChanged("playing")),
         StatsUpdated)

setPuzzleState(g, puzzleConfig) == [g EXCEPT !.puzzleConfig = puzzleConfig]

completeGame(g, now) ==
    IF g.stats = NoStats THEN g
    ELSE emit(emit([g EXCEPT !.stats.endTime = now,
                             !.currentState = "completed"],
                   StatsUpdated),
              StateChanged("completed"))

updateGameProgress(g, piecesPlaced, now) ==
    IF g.stats = NoStats THEN g
    ELSE IF piecesPlaced >= g.stats.totalPieces
         THEN completeGame([g EXCEPT !.stats.piecesPlaced = piecesPlaced], now)
         ELSE emit(emit([g EXCEPT !.stats.piecesPlaced = piecesPlaced],
                        ProgressUpdated),
                   StatsUpdated)

resetToMenu(g) ==
    emit([g EXCEPT !.currentState = "menu", !.stats = NoStats], StateChanged("menu"))

(***************************************************************************)
(* TouchHandler.  The start and the end callback are wrapped by debounce   *)
(* with the delay 0, each with its own timeout field.  The timers of the   *)
(* page that debounce has set and that have not fired are kept in the      *)
(* order they were set, which is the order timers of one delay fire in.    *)
(* The tap detection and the debounced move callback are left out.         *)
(***************************************************************************)
NewTouchHandler == [timers |-> <<>>]

\* The function debounce returns, called with an event: a timer of the same
\* timeout field that has not fired is cleared, and a new one is set.
debounce(t, timeoutRef, event) ==
    [t EXCEPT !.timers =
        Append(SelectSeq(@, LAMBDA timer : timer.timeoutRef # timeoutRef),
               [timeoutRef |-> timeoutRef, event |-> event])]

\* The listeners of pointerdown and of pointerup / pointercancel.
handleRawPointerDown(t, event) == debounce(t, "pointerStartTimeout", event)
handleRawPointerUp(t, event) == debounce(t, "pointerEndTimeout", event)

\* The physical pointers: which are down, the raw start and end events so
\* far, and the events the callbacks of the board were called with.
NoPointerInput == [down |-> {}, raw |-> <<>>, delivered |-> <<>>]

(***************************************************************************)
(* ErrorHandler.withErrorHandling and ImageSearchAPI.searchPhotos.  An     *)
(* optional field that is not given has the value "undefined"; a given     *)
(* retryable is "true" or "false".                                         *)
(***************************************************************************)
maxRetries == 3

\* The errors an operation throws: two GameErrors with the retryable of
\* their class, and a plain Error.
ThrownErrors ==
    {[kind |-> "GameError", code |-> "NETWORK_ERROR", retryable |-> TRUE],
     [kind |-> "GameError", code |-> "VALIDATION_ERROR", retryable |-> FALSE],
     [kind |-> "Error", code |-> "UNKNOWN_ERROR", retryable |-> FALSE]}

NoError == [kind |-> "none", code |-> "none", retryable |-> FALSE]

\* normalizeError with a context: a GameError takes the context's retryable
\* when the context has one; a plain Error becomes a GameError with the
\* context's retryable, false when the context has none.
normalizeError(error, context) ==
    [kind |-> "GameError",
     code |-> error.code,
     severity |-> context.severity,
     retryable |-> IF context.retryable = "undefined"
                   THEN (error.kind = "GameError" /\ error.retryable)
                   ELSE context.retryable = "true"]

\* handleError: the normalized error, and whether handleCriticalError throws
\* it (critical severity on a page of the host localhost).
handleError(error, context, localhost) ==
    [gameError |-> normalizeError(error, context),
     throws |-> context.severity = "critical" /\ localhost]

networkContext ==
    [category |-> "network", severity |-> "high", retryable |-> "true", maxRetries |-> 2]

\* context.maxRetries ?? this.maxRetries
RetryLimit(context) ==
    IF context.maxRetries = Null THEN maxRetries ELSE context.maxRetries

\* No call of withErrorHandling is in progress.
NoCall ==
    [status |-> "idle", context |-> networkContext, fallback |-> FALSE,
     localhost |-> FALSE, attempt |-> 0, invocations |-> 0, lastError |-> NoError,
     result |-> "none", thrown |-> "none", query |-> <<>>]

\* withErrorHandling up to the first call of the operation.
withErrorHandling(context, fallback, localhost) ==
    [NoCall EXCEPT !.status = "running", !.context = context,
                   !.fallback = fallback, !.localhost = localhost]

\* The operation of the current attempt has resolved.
OperationResolved(e) ==
    [e EXCEPT !.status = "returned", !.result = "value",
              !.invocations = @ + 1]

\* The code after the loop: the fallback is returned when there is one,
\* otherwise the last error is thrown (after its recovery action).
AfterLoop(e) ==
    IF e.fallback
    THEN [e EXCEPT !.status = "returned", !.result = "fallback"]
    ELSE [e EXCEPT !.status = "thrown", !.thrown = "lastError"]

\* Faulty variant of OperationRejected: an error that is not retryable is
\* retried as well.
OperationRejectedRetryAll(e, error) ==
    LET handled == handleError(error, e.context, e.localhost)
        e1 == [e EXCEPT !.invocations = @ + 1, !.lastError = handled.gameError]
    IN  IF handled.throws
        THEN [e1 EXCEPT !.status = "thrown", !.thrown = "handleError"]
        ELSE IF e.attempt >= RetryLimit(e.context)
        THEN AfterLoop(e1)
        ELSE [e1 EXCEPT !.attempt = @ + 1]

\* The operation of the current attempt has rejected with `error`: the catch
\* block, and then the wait and the next turn of the loop or the code after
\* the loop.
OperationRejected(e, error) ==
    LET handled == handleError(error, e.context, e.localhost)
        e1 == [e EXCEPT !.invocations = @ + 1, !.lastError = handled.gameError]
    IN  IF handled.throws
        THEN [e1 EXCEPT !.status = "thrown", !.thrown = "handleError"]
        ELSE IF ~handled.gameError.retryable \/ e.attempt >= RetryLimit(e.context)
        THEN AfterLoop(e1)
        ELSE [e1 EXCEPT !.attempt = @ + 1]

\* Validators.sanitizeQuery on a query of the characters " ", "<", ">" and
\* "a": trim, then the removal of "<" and ">", then the first 100 characters.
MaxQueryChars == 100

RECURSIVE TrimStart(_)
TrimStart(s) ==
    IF s # <<>> /\ Head(s) = " " THEN TrimStart(Tail(s)) ELSE s

RECURSIVE TrimEnd(_)
TrimEnd(s) ==
    IF s # <<>> /\ s[Len(s)] = " " THEN TrimEnd(SubSeq(s, 1, Len(s) - 1)) ELSE s

sanitizeQuery(query) ==
    LET trimmed == TrimEnd(TrimStart(query))
        cleaned == SelectSeq(trimmed, LAMBDA c : c \notin {"<", ">"})
    IN  SubSeq(cleaned, 1, IF Len(cleaned) < MaxQueryChars THEN Len(cleaned)
                           ELSE MaxQueryChars)

\* searchPhotos up to the first fetch: an empty sanitized query throws,
\* otherwise withErrorHandling is called with the network context and the
\* mock data as the fallback.
searchPhotos(query, localhost) ==
    IF sanitizeQuery(query) = <<>>
    THEN [NoCall EXCEPT !.status = "thrown", !.thrown = "emptyQuery", !.query = query,
                        !.localhost = localhost]
    ELSE [withErrorHandling(networkContext, TRUE, localhost) EXCEPT !.query = query]

(***************************************************************************)
(* The objects beside the board, as their constructors leave them.         *)
(***************************************************************************)
AppInit ==
    /\ gameLoop = NewGameLoop(TARGET_FPS)
    /\ browser = NewBrowser
    /\ gameState = NewGameStateManager
    /\ touchHandler = NewTouchHandler
    /\ pointerInput = NoPointerInput
    /\ errorHandling = NoCall

(***************************************************************************)
(* The interaction specification Spec: one pointer, a restored puzzle of   *)
(* unconnected pieces, presses on pieces and on empty space, drags,        *)
(* releases, double-taps and the flip-selected / rotate-selected commands. *)
(***************************************************************************)
Pt(x, y) == [x |-> x, y |-> y]

\* Where the user drops a dragged piece (the top-left corner it gets).
DropPositions ==
    { Pt(PieceWidth + 10, 10),           \* near the solved place of piece 1
      Pt(PieceWidth + 10, PieceWidth + 30), \* 20 from the place below it, turned 90
      Pt(3000, 1000),                    \* away from the solved places
      Pt(3000 + PieceWidth, 1020) }      \* 20 from the place right of it

\* A screen point over no piece.
EmptyPoint == Pt(0 - 5000, 0 - 5000)

\* Where the pieces lie at the start.
StartPositions ==
    <<Pt(6000, 3000), Pt(3000, 1000), Pt(PieceWidth + 10, PieceWidth + 30)>>

StartPlace(id) ==
    IF id + 1 <= Len(StartPositions) THEN StartPositions[id + 1]
    ELSE Pt(6000, 3000)

StartPieces(order, rot, face) ==
    [i \in 1 .. NumPieces |->
        RestoredPiece(Rows, Cols, order[i], StartPlace(order[i]).x,
                      StartPlace(order[i]).y, rot[order[i]], face[order[i]])]

IdentityOrder == [i \in 1 .. NumPieces |-> i - 1]
ReverseOrder == [i \in 1 .. NumPieces |-> NumPieces - i]

\* The piece lists the specification starts from: draw order, rotations
\* (preRotate) and faces (preFlip) vary.
StartConfigs ==
    { [order |-> IdentityOrder, rot |-> [id \in PieceIds |-> 0],
       face |-> [id \in PieceIds |-> TRUE]],
      [order |-> ReverseOrder, rot |-> [id \in PieceIds |-> 90],
       face |-> [id \in PieceIds |-> TRUE]],
      [order |-> IdentityOrder,
       rot |-> [id \in PieceIds |-> IF id = NumPieces - 1 THEN 90 ELSE 0],
       face |-> [id \in PieceIds |-> id # 0]] }

Init ==
    /\ \E c \in StartConfigs : pieces = StartPieces(c.order, c.rot, c.face)
    /\ selectedPiece = Null
    /\ isDragging = FALSE
    /\ hasMovedBeyondThreshold = FALSE
    /\ pointerDownScreenPos = NullPos
    /\ dragPointerId = Null
    /\ panPointerId = Null
    /\ panLast = NullPos
    /\ activePointers = <<>>
    /\ isPinching = FALSE
    /\ pinchStart = NoPinch
    /\ camera = [scale |-> SCALE_ONE, offsetX |-> 0, offsetY |-> 0]
    /\ activeAnimation = NoAnimation
    /\ loadPromise = "none"
    /\ commands = 0
    /\ AppInit

ThePointer == 1

PieceCentre(p) == Pt(p.x + p.width \div 2, p.y + p.height \div 2)

\* The screen points the user presses and double-taps: the centre of a piece,
\* or empty space.
PressPoints ==
    {worldToScreen(camera, PieceCentre(pieces[i]).x, PieceCentre(pieces[i]).y) :
        i \in DOMAIN pieces} \cup {EmptyPoint}

\* The screen points a drag moves to: a pointer that holds a piece by its
\* centre moves so that the piece comes to a drop position.
MovePoints ==
    {worldToScreen(camera, d.x + PieceWidth \div 2, d.y + PieceHeight \div 2) :
        d \in DropPositions}

\* The piece a press at the world point (x, y) picks, or Null.
PickedAt(ps, x, y) ==
    LET candidates == HitCandidates(ps, Len(ps), x, y)
    IN  IF candidates = <<>> THEN Null ELSE SmallestCandidate(candidates).piece

\* The user presses empty space, or the centre of a piece that no other
\* piece hides there (the press picks that piece, or no piece when it is
\* locked), so that a piece is always held by its centre.
PointerStart ==
    /\ PointerIndex(activePointers, ThePointer) = 0
    /\ \/ Install(onPointerStart(Board, ThePointer, EmptyPoint.x, EmptyPoint.y))
       \/ \E i \in DOMAIN pieces :
             LET c == PieceCentre(pieces[i])
                 pt == worldToScreen(camera, c.x, c.y)
             IN  /\ PickedAt(pieces, c.x, c.y) \in {pieces[i].id, Null}
                 /\ Install(onPointerStart(Board, ThePointer, pt.x, pt.y))
    /\ UNCHANGED <<commands, appVars>>

\* The pointer moves while it holds a piece.
PointerMove ==
    /\ PointerIndex(activePointers, ThePointer) # 0
    /\ dragPointerId = ThePointer
    /\ \E pt \in MovePoints : Install(onPointerMove(Board, ThePointer, pt.x, pt.y))
    /\ UNCHANGED <<commands, appVars>>

PointerEnd ==
    /\ PointerIndex(activePointers, ThePointer) # 0
    /\ Install(onPointerEnd(Board, ThePointer))
    /\ UNCHANGED <<commands, appVars>>

DoubleTap ==
    /\ commands < MaxCommands
    /\ \E pt \in PressPoints : Install(onDoubleTap(Board, pt.x, pt.y))
    /\ commands' = commands + 1
    /\ UNCHANGED appVars

FlipSelected ==
    /\ commands < MaxCommands
    /\ selectedPiece # Null
    /\ Install(flipSelectedPiece(Board))
    /\ commands' = commands + 1
    /\ UNCHANGED appVars

RotateSelected ==
    /\ commands < MaxCommands
    /\ selectedPiece # Null
    /\ Install(rotateSelectedPiece(Board))
    /\ commands' = commands + 1
    /\ UNCHANGED appVars

Next ==
    \/ PointerStart
    \/ PointerMove
    \/ PointerEnd
    \/ DoubleTap
    \/ FlipSelected
    \/ RotateSelected

Spec == Init /\ [][Next]_vars

(***************************************************************************)
(* The assembly specification GridSpec: a GridRows x GridCols puzzle whose *)
(* pieces lie apart, face up and unrotated.  The user assembles it away    *)
(* from the solved places: a held piece is dropped at its place in the     *)
(* assembly, off by one of GridOffsets, or back at its own far place.      *)
(***************************************************************************)
GridRows == 2
GridCols == 2

GridIds == 0 .. (GridRows * GridCols - 1)

\* The top-left corner of the assembly.
GridBase == Pt(3000, 2000)

\* How far off its place a piece is dropped: exactly there, 20 off, and
\* (18, 24), which is exactly SNAP_DISTANCE off.
GridOffsets == {Pt(0, 0), Pt(0, 20), Pt(18, 24)}

GridFar(id) == Pt(9000 + 2000 * id, 6000)

GridPlace(id, o) ==
    Pt(GridBase.x + originalPosition(GridCols, id).x + o.x,
       GridBase.y + originalPosition(GridCols, id).y + o.y)

GridDrops(id) == {GridPlace(id, o) : o \in GridOffsets} \cup {GridFar(id)}

GridPieces(order) ==
    [i \in 1 .. (GridRows * GridCols) |->
        RestoredPiece(GridRows, GridCols, order[i],
                      GridFar(order[i]).x, GridFar(order[i]).y, 0, TRUE)]

GridInit ==
    /\ \E up \in BOOLEAN :
          pieces = GridPieces([i \in 1 .. (GridRows * GridCols) |->
                                 IF up THEN i - 1 ELSE GridRows * GridCols - i])
    /\ selectedPiece = Null
    /\ isDragging = FALSE
    /\ hasMovedBeyondThreshold = FALSE
    /\ pointerDownScreenPos = NullPos
    /\ dragPointerId = Null
    /\ panPointerId = Null
    /\ panLast = NullPos
    /\ activePointers = <<>>
    /\ isPinching = FALSE
    /\ pinchStart = NoPinch
    /\ camera = [scale |-> SCALE_ONE, offsetX |-> 0, offsetY |-> 0]
    /\ activeAnimation = NoAnimation
    /\ loadPromise = "none"
    /\ commands = 0
    /\ AppInit

\* The pointer moves the held piece to one of its drop places.
GridPointerMove ==
    /\ PointerIndex(activePointers, ThePointer) # 0
    /\ dragPointerId = ThePointer
    /\ selectedPiece # Null
    /\ \E d \in GridDrops(selectedPiece) :
          LET pt == worldToScreen(camera, d.x + PieceWidth \div 2,
                                  d.y + PieceHeight \div 2)
          IN  Install(onPointerMove(Board, ThePointer, pt.x, pt.y))
    /\ UNCHANGED <<commands, appVars>>

GridNext ==
    \/ PointerStart
    \/ GridPointerMove
    \/ PointerEnd

GridSpec == GridInit /\ [][GridNext]_vars

(***************************************************************************)
(* The turning specification TurnSpec: the puzzle of Spec, where the user  *)
(* joins pieces, flips the selected piece and double-taps up to MaxTurns   *)
(* times.                                                                  *)
(***************************************************************************)
MaxTurns == 2

\* Where a held piece is dropped: 20 from the place right of the piece at
\* (3000, 1000), and away from every piece.
TurnDrops == {Pt(3000 + PieceWidth, 1020), Pt(4000, 5000)}

TurnPointerMove ==
    /\ PointerIndex(activePointers, ThePointer) # 0
    /\ dragPointerId = ThePointer
    /\ \E d \in TurnDrops :
          LET pt == worldToScreen(camera, d.x + PieceWidth \div 2,
                                  d.y + PieceHeight \div 2)
          IN  Install(onPointerMove(Board, ThePointer, pt.x, pt.y))
    /\ UNCHANGED <<commands, appVars>>

TurnDoubleTap ==
    /\ commands < MaxTurns
    /\ \E pt \in PressPoints : Install(onDoubleTap(Board, pt.x, pt.y))
    /\ commands' = commands + 1
    /\ UNCHANGED appVars

TurnFlipSelected ==
    /\ commands < MaxTurns
    /\ selectedPiece # Null
    /\ Install(flipSelectedPiece(Board))
    /\ commands' = commands + 1
    /\ UNCHANGED appVars

TurnNext ==
    \/ PointerStart
    \/ TurnPointerMove
    \/ PointerEnd
    \/ TurnDoubleTap
    \/ TurnFlipSelected

TurnSpec == Init /\ [][TurnNext]_vars

(***************************************************************************)
(* The threshold specification ThresholdSpec: a restored puzzle where      *)
(* piece 2 lies 20 from its place next to piece 1, and a pointer that      *)
(* holds a piece moves a few pixels from where it went down.               *)
(***************************************************************************)
\* How far from its start a piece may get before the pointer stops moving it.
MaxDrift == 8

ThresholdPositions ==
    <<Pt(6000, 3000), Pt(3000, 1000), Pt(3000 + PieceWidth, 1020)>>

\* Where the pointer moves, from where it went down: (3, 4) is exactly
\* DRAG_THRESHOLD away, (4, 4) is beyond it, (1, 1) is within it.
NudgeOffsets == {Pt(1, 1), Pt(3, 4), Pt(4, 4)}

ThresholdInit ==
    /\ pieces = [i \in 1 .. NumPieces |->
                   RestoredPiece(Rows, Cols, i - 1, ThresholdPositions[i].x,
                                 ThresholdPositions[i].y, 0, TRUE)]
    /\ selectedPiece = Null
    /\ isDragging = FALSE
    /\ hasMovedBeyondThreshold = FALSE
    /\ pointerDownScreenPos = NullPos
    /\ dragPointerId = Null
    /\ panPointerId = Null
    /\ panLast = NullPos
    /\ activePointers = <<>>
    /\ isPinching = FALSE
    /\ pinchStart = NoPinch
    /\ camera = [scale |-> SCALE_ONE, offsetX |-> 0, offsetY |-> 0]
    /\ activeAnimation = NoAnimation
    /\ loadPromise = "none"
    /\ commands = 0
    /\ AppInit

\* The pointer that holds a piece moves to a point near where it went down.
PointerNudge ==
    /\ PointerIndex(activePointers, ThePointer) # 0
    /\ dragPointerId = ThePointer
    /\ selectedPiece # Null
    /\ pointerDownScreenPos # NullPos
    /\ PieceById(pieces, selectedPiece).x
          < ThresholdPositions[selectedPiece + 1].x + MaxDrift
    /\ \E o \in NudgeOffsets :
          Install(onPointerMove(Board, ThePointer, pointerDownScreenPos.x + o.x,
                                pointerDownScreenPos.y + o.y))
    /\ UNCHANGED <<commands, appVars>>

ThresholdNext ==
    \/ PointerStart
    \/ PointerNudge
    \/ PointerEnd

ThresholdSpec == ThresholdInit /\ [][ThresholdNext]_vars

(***************************************************************************)
(* The two-pointer specification PinchSpec: the restored puzzle of         *)
(* ThresholdSpec, a first pointer that presses, drags and releases, and a  *)
(* second pointer that goes down, moves and goes up beside it.             *)
(***************************************************************************)
SecondPointer == 2

\* The screen points of the second pointer, and of either pointer while two
\* are down or no drag is recorded; they lie over no piece.
PinchPoints == {Pt(0 - 2000, 0 - 1000), Pt(0 - 1000, 0 - 3000)}

InitialCamera == [scale |-> SCALE_ONE, offsetX |-> 0, offsetY |-> 0]

\* Where the first pointer drops a held piece: 10 from the place right of
\* the piece at (3000, 1000), and away from every piece.
PinchDrops == {Pt(3000 + PieceWidth, 1010), Pt(4000, 5000)}

\* The first pointer goes down, while the camera has not been moved.
PinchPointerStart ==
    /\ camera = InitialCamera
    /\ PointerStart

\* The first pointer moves the piece it holds to a drop place.
PinchDragMove ==
    /\ PointerIndex(activePointers, ThePointer) # 0
    /\ dragPointerId = ThePointer
    /\ \E d \in PinchDrops :
          LET pt == worldToScreen(camera, d.x + PieceWidth \div 2,
                                  d.y + PieceHeight \div 2)
          IN  Install(onPointerMove(Board, ThePointer, pt.x, pt.y))
    /\ UNCHANGED <<commands, appVars>>

\* The second pointer goes down, while the camera has not been moved.
SecondPointerStart ==
    /\ PointerIndex(activePointers, SecondPointer) = 0
    /\ camera = InitialCamera
    /\ \E pt \in PinchPoints :
          Install(onPointerStart(Board, SecondPointer, pt.x, pt.y))
    /\ UNCHANGED <<commands, appVars>>

\* A pointer moves while two pointers are down or no drag is recorded (and
\* no pan is under way).
PinchPointerMove ==
    /\ panPointerId = Null
    /\ Len(activePointers) = 2 \/ dragPointerId = Null
    /\ \E p \in {ThePointer, SecondPointer} :
          /\ PointerIndex(activePointers, p) # 0
          /\ \E pt \in PinchPoints :
                /\ \A k \in DOMAIN activePointers :
                      Pt(activePointers[k].x, activePointers[k].y) # pt
                /\ Install(onPointerMove(Board, p, pt.x, pt.y))
    /\ UNCHANGED <<commands, appVars>>

SecondPointerEnd ==
    /\ PointerIndex(activePointers, SecondPointer) # 0
    /\ Install(onPointerEnd(Board, SecondPointer))
    /\ UNCHANGED <<commands, appVars>>

PinchNext ==
    \/ PinchPointerStart
    \/ PinchDragMove
    \/ PointerEnd
    \/ SecondPointerStart
    \/ PinchPointerMove
    \/ SecondPointerEnd

PinchSpec == ThresholdInit /\ [][PinchNext]_vars

(***************************************************************************)
(* The animation specification AnimSpec: an assembled puzzle that lies     *)
(* away from its solved place, turned or not; the user presses, drags,     *)
(* double-taps and gives commands, the completion animation is started,    *)
(* and the frame loop calls update.                                        *)
(***************************************************************************)
\* The progress values update is called at.
Progresses == {0, 1}

\* The pieces with each piece connected to the next id.
RECURSIVE ConnectChain(_, _)
ConnectChain(ps, k) ==
    IF k < 1 THEN ps ELSE ConnectChain(Connect(ps, k - 1, k), k - 1)

AssembledPieces ==
    ConnectChain([i \in 1 .. NumPieces |->
                    RestoredPiece(Rows, Cols, i - 1,
                                  3000 + originalPosition(Cols, i - 1).x,
                                  1000 + originalPosition(Cols, i - 1).y, 0, TRUE)],
                 NumPieces - 1)

AnimInit ==
    /\ \/ pieces = AssembledPieces
       \/ pieces = rotateGroup(AssembledPieces,
                               getAllPiecesInGroup(AssembledPieces, 0))
    /\ selectedPiece = Null
    /\ isDragging = FALSE
    /\ hasMovedBeyondThreshold = FALSE
    /\ pointerDownScreenPos = NullPos
    /\ dragPointerId = Null
    /\ panPointerId = Null
    /\ panLast = NullPos
    /\ activePointers = <<>>
    /\ isPinching = FALSE
    /\ pinchStart = NoPinch
    /\ camera = [scale |-> SCALE_ONE, offsetX |-> 0, offsetY |-> 0]
    /\ activeAnimation = NoAnimation
    /\ loadPromise = "none"
    /\ commands = 0
    /\ AppInit

\* The completion animation is started on a puzzle whose pieces are all in
\* one group.
CompletionNormalize ==
    /\ activeAnimation = NoAnimation
    /\ Len(getAllPiecesInGroup(pieces, pieces[1].id)) = Len(pieces)
    /\ Install(animateCompletionNormalize(Board))
    /\ UNCHANGED <<commands, appVars>>

\* A frame of the loop.
AnimationFrame ==
    /\ activeAnimation # NoAnimation
    /\ \E progress \in Progresses : Install(update(Board, progress))
    /\ UNCHANGED <<commands, appVars>>

AnimNext ==
    \/ PointerStart
    \/ PointerMove
    \/ PointerEnd
    \/ DoubleTap
    \/ FlipSelected
    \/ RotateSelected
    \/ CompletionNormalize
    \/ AnimationFrame

AnimSpec == AnimInit /\ [][AnimNext]_vars

(***************************************************************************)
(* The frame-loop specification TickSpec: the assembled puzzle of          *)
(* AnimSpec; the completion animation is started, the frame loop calls     *)
(* update, the user presses, releases and double-taps, the view is reset   *)
(* and a new puzzle is loaded.  The game loop runs update on every         *)
(* animation frame and the clock advances, so a frame that finds the       *)
(* duration elapsed (progress 1) cannot stay possible forever without      *)
(* being taken: weak fairness of FinalFrame.                               *)
(***************************************************************************)
\* The piece lists PuzzleGenerator.generatePuzzle makes for a load.
GeneratedPieces ==
    { [i \in 1 .. NumPieces |->
          NewPiece(Rows, Cols, i - 1, StartPlace(i - 1).x, StartPlace(i - 1).y,
                   rot, TRUE)] : rot \in {0, 90} }

\* One puzzle is loaded in a behaviour.
LoadStart ==
    /\ loadPromise = "none"
    /\ Install(loadPuzzleStart(Board))
    /\ UNCHANGED <<commands, appVars>>

LoadInstall ==
    /\ loadPromise = "pending"
    /\ \E ps \in GeneratedPieces : Install(loadPuzzleInstall(Board, ps))
    /\ UNCHANGED <<commands, appVars>>

ResetView ==
    /\ Install(resetView(Board))
    /\ UNCHANGED <<commands, appVars>>

\* A press while no load is pending.
TickPointerStart == loadPromise # "pending" /\ PointerStart

\* The frame that finds the duration of the animation elapsed.
FinalFrame ==
    /\ activeAnimation # NoAnimation
    /\ \E after \in {update(Board, 1)} : Install(after)
    /\ UNCHANGED <<commands, appVars>>

TickNext ==
    \/ CompletionNormalize
    \/ AnimationFrame
    \/ TickPointerStart
    \/ PointerEnd
    \/ DoubleTap
    \/ ResetView
    \/ LoadStart
    \/ LoadInstall

TickSpec == AnimInit /\ [][TickNext]_vars /\ WF_vars(FinalFrame)

(***************************************************************************)
(* The load specification LoadSpec: the assembled puzzle of AnimSpec; a    *)
(* new puzzle is loaded (the load starts, then the pieces are installed or *)
(* the image fails), and the user presses, releases and double-taps at any *)
(* time and drags while the load is pending (drags outside a load are the  *)
(* subject of Spec and GridSpec).  Where selectedPiece holds a piece of    *)
(* the replaced list, the handlers that would write to that piece are not  *)
(* followed.                                                               *)
(***************************************************************************)
LoadFail ==
    /\ loadPromise = "pending"
    /\ Install(loadPuzzleFail(Board))
    /\ UNCHANGED <<commands, appVars>>

LoadPointerMove ==
    /\ loadPromise = "pending"
    /\ selectedPiece # ReplacedPiece
    /\ PointerMove

LoadPointerEnd ==
    /\ selectedPiece # ReplacedPiece
    /\ PointerEnd

LoadNext ==
    \/ LoadStart
    \/ LoadInstall
    \/ LoadFail
    \/ PointerStart
    \/ LoadPointerMove
    \/ LoadPointerEnd
    \/ DoubleTap

LoadSpec == AnimInit /\ [][LoadNext]_vars

(***************************************************************************)
(* The camera specification CameraSpec: the assembled puzzle of AnimSpec;  *)
(* the wheel zooms, two pointers go down, move and go up anywhere in       *)
(* TouchPoints (also both at one point), the view is fitted and reset, the *)
(* saved pieces are restored, and the completion animation runs.  The      *)
(* wheel events, the pointer moves and the animations of a behaviour are   *)
(* counted in commands.                                                    *)
(* Once the scale is not a number, every coordinate computed from the      *)
(* camera is not a number either: from there the specification follows     *)
(* only the steps that do not read the camera.                             *)
(***************************************************************************)
MaxCameraSteps == 2

\* Where the wheel turns and the pointers touch: screen points over no piece
\* of the puzzle at its start.
TouchPoints == {Pt(0 - 2000, 0 - 1000), Pt(0 - 1936, 0 - 3000)}

\* The scale factors of the wheel events.
WheelFactors ==
    {[num |-> 1, den |-> 2], [num |-> 3, den |-> 4], [num |-> 8, den |-> 1]}

Pointers == {ThePointer, SecondPointer}

Wheel ==
    /\ commands < MaxCameraSteps
    /\ camera.scale # NAN_SCALE
    /\ \E pt \in TouchPoints, f \in WheelFactors :
          Install(zoomAtScreenPoint(Board, pt.x, pt.y, f))
    /\ commands' = commands + 1
    /\ UNCHANGED appVars

CameraPointerStart ==
    /\ camera.scale # NAN_SCALE
    /\ \E p \in Pointers, pt \in TouchPoints :
          /\ PointerIndex(activePointers, p) = 0
          /\ Install(onPointerStart(Board, p, pt.x, pt.y))
    /\ UNCHANGED <<commands, appVars>>

\* A pointer move that pans or pinches; the event may carry the coordinates
\* the pointer already has.
CameraPointerMove ==
    /\ commands < MaxCameraSteps
    /\ camera.scale # NAN_SCALE
    /\ dragPointerId = Null
    /\ \E p \in Pointers, pt \in TouchPoints :
          /\ PointerIndex(activePointers, p) # 0
          /\ Install(onPointerMove(Board, p, pt.x, pt.y))
    /\ commands' = commands + 1
    /\ UNCHANGED appVars

CameraPointerEnd ==
    /\ dragPointerId = Null
    /\ \E p \in Pointers :
          /\ PointerIndex(activePointers, p) # 0
          /\ Install(onPointerEnd(Board, p))
    /\ UNCHANGED <<commands, appVars>>

FitView ==
    /\ Install(fitViewToPieces(Board))
    /\ UNCHANGED <<commands, appVars>>

Restore ==
    /\ Install(restorePieces(Board, AssembledPieces))
    /\ UNCHANGED <<commands, appVars>>

CameraCompletionNormalize ==
    /\ commands < MaxCameraSteps
    /\ camera.scale # NAN_SCALE
    /\ activeAnimation = NoAnimation
    /\ Len(getAllPiecesInGroup(pieces, pieces[1].id)) = Len(pieces)
    /\ Install(animateCompletionNormalize(Board))
    /\ commands' = commands + 1
    /\ UNCHANGED appVars

CameraNext ==
    \/ Wheel
    \/ CameraPointerStart
    \/ CameraPointerMove
    \/ CameraPointerEnd
    \/ FitView
    \/ ResetView
    \/ Restore
    \/ CameraCompletionNormalize
    \/ AnimationFrame

CameraSpec == AnimInit /\ [][CameraNext]_vars

(***************************************************************************)
(* The scheduler specification LoopSpec: the GameLoop as its constructor   *)
(* leaves it; it is started and stopped, its target rate is set, time      *)
(* passes and the page fires the frames the loop has requested.  The       *)
(* callbacks the board gives the loop (update, render) call neither start  *)
(* nor stop, and the page runs one callback at a time, so a start or stop  *)
(* comes between two frames.                                               *)
(***************************************************************************)
MaxTime == 300
MaxFrameRequests == 6

\* How long it takes until the next thing happens, in thirds of a millisecond.
TimeSteps == {20, 55, 130}

\* The rates setTargetFPS is called with.
TargetRates == {30, 60}

LoopInit ==
    /\ AnimInit
    /\ pieces = AssembledPieces

TimePasses ==
    /\ \E d \in TimeSteps :
          /\ browser.now + d <= MaxTime
          /\ browser' = [browser EXCEPT !.now = @ + d]
    /\ UNCHANGED <<boardVars, commands, gameLoop, gameState, ioVars>>

LoopStart ==
    /\ browser.nextFrameId <= MaxFrameRequests
    /\ Adopt(start(App))
    /\ UNCHANGED <<boardVars, commands, gameState, ioVars>>

LoopStop ==
    /\ Adopt(stop(App))
    /\ UNCHANGED <<boardVars, commands, gameState, ioVars>>

SetTargetFPS ==
    /\ \E fps \in TargetRates : Adopt(setTargetFPS(App, fps))
    /\ UNCHANGED <<boardVars, commands, gameState, ioVars>>

Frame ==
    /\ browser.nextFrameId <= MaxFrameRequests
    /\ \E id \in browser.frames : Adopt(FrameFired(App, id))
    /\ UNCHANGED <<boardVars, commands, gameState, ioVars>>

LoopNext ==
    \/ TimePasses
    \/ LoopStart
    \/ LoopStop
    \/ SetTargetFPS
    \/ Frame

LoopSpec == LoopInit /\ [][LoopNext]_vars

(***************************************************************************)
(* The rotation-animation specification AngleSpec: the unconnected pieces  *)
(* of Spec, each at any rotation; an animation to a common target rotation *)
(* is started with the pieces staying in place, and the frame loop calls   *)
(* update.                                                                 *)
(***************************************************************************)
AngleInit ==
    /\ \E rot \in [PieceIds -> Rotations] :
          pieces = StartPieces(IdentityOrder, rot, [id \in PieceIds |-> TRUE])
    /\ selectedPiece = Null
    /\ isDragging = FALSE
    /\ hasMovedBeyondThreshold = FALSE
    /\ pointerDownScreenPos = NullPos
    /\ dragPointerId = Null
    /\ panPointerId = Null
    /\ panLast = NullPos
    /\ activePointers = <<>>
    /\ isPinching = FALSE
    /\ pinchStart = NoPinch
    /\ camera = [scale |-> SCALE_ONE, offsetX |-> 0, offsetY |-> 0]
    /\ activeAnimation = NoAnimation
    /\ loadPromise = "none"
    /\ commands = 0
    /\ AppInit

\* animateToState with the rotation `end` as the target of every piece.
TurnTo ==
    /\ activeAnimation = NoAnimation
    /\ \E end \in Rotations :
          Install(animateToState(
                      Board,
                      [id \in PieceIds |->
                          [x |-> PieceById(pieces, id).x,
                           y |-> PieceById(pieces, id).y,
                           rotation |-> end]],
                      camera, "none"))
    /\ UNCHANGED <<commands, appVars>>

AngleNext ==
    \/ TurnTo
    \/ AnimationFrame

AngleSpec == AngleInit /\ [][AngleNext]_vars

(***************************************************************************)
(* The placing specification PlaceSpec: the restored puzzle of             *)
(* ThresholdSpec; the user drags pieces to places that lie within the      *)
(* tolerance of a solved place, and to a place away from them.             *)
(***************************************************************************)
\* Where a dragged piece is dropped (the top-left corner it gets): (10, 10)
\* beside the solved place of piece 1 and of piece 2, (-15, -10) beside the
\* solved place of piece 0, which is further than SNAP_DISTANCE from the
\* place next to a piece 1 at the first drop, and a place away from all.
PlaceDrops ==
    { Pt(PieceWidth + 10, 10),
      Pt(2 * PieceWidth + 10, 10),
      Pt(0 - 15, 0 - 10),
      Pt(3000, 3000) }

PlaceDragMove ==
    /\ PointerIndex(activePointers, ThePointer) # 0
    /\ dragPointerId = ThePointer
    /\ \E d \in PlaceDrops :
          LET pt == worldToScreen(camera, d.x + PieceWidth \div 2,
                                  d.y + PieceHeight \div 2)
          IN  Install(onPointerMove(Board, ThePointer, pt.x, pt.y))
    /\ UNCHANGED <<commands, appVars>>

PlaceNext ==
    \/ PointerStart
    \/ PlaceDragMove
    \/ PointerEnd

PlaceSpec == ThresholdInit /\ [][PlaceNext]_vars

(***************************************************************************)
(* The difficulty specification DifficultySpec: a difficulty of either     *)
(* table is chosen, an image is selected (the puzzle of rows x cols pieces *)
(* is generated and the game started), the board reports the size of its   *)
(* largest group, which never shrinks, and the game is reset to the menu.  *)
(***************************************************************************)
\* The number of pieces PuzzleGenerator.generatePuzzle makes for a config.
GeneratedCount(puzzleConfig) == puzzleConfig.rows * puzzleConfig.cols

UpdateSettings ==
    /\ gameState.currentState = "menu"
    /\ \E d \in DIFFICULTIES \cup DIFFICULTIES_PART_008 :
          AdoptGameState(updateSettings(GameState, d))
    /\ UNCHANGED <<boardVars, commands, loopVars, ioVars>>

\* App.onImageSelected after the puzzle has been loaded.
ImageSelected ==
    /\ gameState.currentState = "menu"
    /\ AdoptGameState(
           setPuzzleState(startGame(GameState, gameState.difficulty.totalPieces,
                                    browser.now),
                          [isNull |-> FALSE, rows |-> gameState.difficulty.rows,
                           cols |-> gameState.difficulty.cols]))
    /\ UNCHANGED <<boardVars, commands, loopVars, ioVars>>

\* The progress handler App gives the board: the largest group has
\* `connected` of the generated pieces.
ProgressReport ==
    /\ gameState.stats # NoStats
    /\ \E connected \in 1 .. GeneratedCount(gameState.puzzleConfig) :
          /\ connected >= gameState.stats.piecesPlaced
          /\ AdoptGameState(updateGameProgress(GameState, connected, browser.now))
    /\ UNCHANGED <<boardVars, commands, loopVars, ioVars>>

ResetToMenu ==
    /\ gameState.currentState # "menu"
    /\ AdoptGameState(resetToMenu(GameState))
    /\ UNCHANGED <<boardVars, commands, loopVars, ioVars>>

DifficultyNext ==
    \/ UpdateSettings
    \/ ImageSelected
    \/ ProgressReport
    \/ ResetToMenu

DifficultySpec == LoopInit /\ [][DifficultyNext]_vars

(***************************************************************************)
(* The game specification GameSpec: the puzzle and the drags of PlaceSpec, *)
(* with the GameStateManager that App connects to the board: a game of     *)
(* NumPieces pieces is started, and every progress call of the board goes  *)
(* to GameStateManager.updateProgress.                                     *)
(***************************************************************************)
\* The handlers App registers on the board, applied to the calls a board
\* handler has made, in their order.
RECURSIVE Deliver(_, _, _)
Deliver(g, calls, now) ==
    IF calls = <<>> THEN g
    ELSE Deliver(IF Head(calls).name = "onProgressUpdate"
                 THEN updateGameProgress(g, Head(calls).largest, now)
                 ELSE g,
                 Tail(calls), now)

\* The game is started for the puzzle on the board.
StartPlay ==
    /\ gameState.currentState = "menu"
    /\ activePointers = <<>>
    /\ AdoptGameState(startGame(GameState, Len(pieces), browser.now))
    /\ UNCHANGED <<boardVars, commands, loopVars, ioVars>>

GamePointerEnd ==
    /\ PointerIndex(activePointers, ThePointer) # 0
    /\ \E after \in {onPointerEnd(Board, ThePointer)} :
          /\ Install(after)
          /\ AdoptGameState(Deliver(GameState, after.calls, browser.now))
    /\ UNCHANGED <<commands, loopVars, ioVars>>

GameNext ==
    \/ StartPlay
    \/ PointerStart
    \/ PlaceDragMove
    \/ GamePointerEnd
    \/ ResetToMenu

GameSpec == ThresholdInit /\ [][GameNext]_vars

(***************************************************************************)
(* The normalizing specification NormalizeSpec: the assembled puzzle of    *)
(* AnimSpec after zero to three double taps, each of which turns the whole *)
(* puzzle a quarter; the user drags the puzzle, the completion animation   *)
(* is started and the frame loop calls update.                             *)
(***************************************************************************)
\* The pieces after `turns` double taps on the group of piece 0.
RECURSIVE TurnedPieces(_, _)
TurnedPieces(ps, turns) ==
    IF turns = 0 THEN ps
    ELSE TurnedPieces(rotateGroup(ps, getAllPiecesInGroup(ps, 0)), turns - 1)

NormalizeInit ==
    /\ \E turns \in 0 .. 3 : pieces = TurnedPieces(AssembledPieces, turns)
    /\ selectedPiece = Null
    /\ isDragging = FALSE
    /\ hasMovedBeyondThreshold = FALSE
    /\ pointerDownScreenPos = NullPos
    /\ dragPointerId = Null
    /\ panPointerId = Null
    /\ panLast = NullPos
    /\ activePointers = <<>>
    /\ isPinching = FALSE
    /\ pinchStart = NoPinch
    /\ camera = [scale |-> SCALE_ONE, offsetX |-> 0, offsetY |-> 0]
    /\ activeAnimation = NoAnimation
    /\ loadPromise = "none"
    /\ commands = 0
    /\ AppInit

NormalizeNext ==
    \/ PointerStart
    \/ PointerMove
    \/ PointerEnd
    \/ CompletionNormalize
    \/ AnimationFrame

NormalizeSpec == NormalizeInit /\ [][NormalizeNext]_vars

(***************************************************************************)
(* The error-handling specification ErrorSpec: one call of                 *)
(* ErrorHandler.withErrorHandling, made directly with a context and with   *)
(* or without a fallback, or made by searchPhotos with a query; every call *)
(* of the operation resolves or rejects with one of the thrown errors.     *)
(***************************************************************************)
MaxQueryLen == 2

QueryChars == {" ", "<", "a"}

Queries == UNION {[1 .. n -> QueryChars] : n \in 0 .. MaxQueryLen}

Contexts ==
    [category : {"network"}, severity : {"high", "critical"},
     retryable : {"true", "false", "undefined"}, maxRetries : {Null, 0, 1, 2}]

CallWithErrorHandling ==
    /\ errorHandling.status = "idle"
    /\ \E context \in Contexts, fallback \in BOOLEAN, localhost \in BOOLEAN :
          errorHandling' = withErrorHandling(context, fallback, localhost)
    /\ UNCHANGED <<boardVars, commands, loopVars, gameState, touchHandler, pointerInput>>

SearchPhotos ==
    /\ errorHandling.status = "idle"
    /\ \E query \in Queries, localhost \in BOOLEAN :
          errorHandling' = searchPhotos(query, localhost)
    /\ UNCHANGED <<boardVars, commands, loopVars, gameState, touchHandler, pointerInput>>

OperationResolves ==
    /\ errorHandling.status = "running"
    /\ errorHandling' = OperationResolved(errorHandling)
    /\ UNCHANGED <<boardVars, commands, loopVars, gameState, touchHandler, pointerInput>>

OperationRejects ==
    /\ errorHandling.status = "running"
    /\ \E error \in ThrownErrors : errorHandling' = OperationRejected(errorHandling, error)
    /\ UNCHANGED <<boardVars, commands, loopVars, gameState, touchHandler, pointerInput>>

ErrorNext ==
    \/ CallWithErrorHandling
    \/ SearchPhotos
    \/ OperationResolves
    \/ OperationRejects

ErrorSpec == ThresholdInit /\ [][ErrorNext]_vars

(***************************************************************************)
(* The touch specification TouchSpec: the restored puzzle of               *)
(* ThresholdSpec and two pointers.  A pointer goes down or up (the raw     *)
(* pointerdown, pointerup and pointercancel events, which the listeners of *)
(* the TouchHandler pass to the debounced callbacks), and the timer that   *)
(* was set first fires and calls onPointerStart or onPointerEnd of the     *)
(* board.  Raw events that follow each other before a timer fires are the  *)
(* events of one turn of the event loop.                                   *)
(***************************************************************************)
MaxRawEvents == 4

\* Where a pointer goes down: on the piece at (3000, 1000) or on no piece.
RawDownPoints == {Pt(3000 + PieceWidth \div 2, 1000 + PieceHeight \div 2), EmptyPoint}

RawPointerDown ==
    /\ Len(pointerInput.raw) < MaxRawEvents
    /\ \E id \in Pointers \ pointerInput.down, pt \in RawDownPoints :
          LET event == [type |-> "start", pointerId |-> id, x |-> pt.x, y |-> pt.y]
          IN  /\ touchHandler' = handleRawPointerDown(touchHandler, event)
              /\ pointerInput' = [pointerInput EXCEPT !.down = @ \cup {id},
                                                      !.raw = Append(@, event)]
    /\ UNCHANGED <<boardVars, commands, loopVars, gameState, errorHandling>>

RawPointerUp ==
    /\ \E id \in pointerInput.down :
          LET event == [type |-> "end", pointerId |-> id,
                        x |-> EmptyPoint.x, y |-> EmptyPoint.y]
          IN  /\ touchHandler' = handleRawPointerUp(touchHandler, event)
              /\ pointerInput' = [pointerInput EXCEPT !.down = @ \ {id},
                                                      !.raw = Append(@, event)]
    /\ UNCHANGED <<boardVars, commands, loopVars, gameState, errorHandling>>

\* The timer that was set first fires: the callback of the board is called
\* with its event, and the timeout field is set to null.
TimerFires ==
    /\ touchHandler.timers # <<>>
    /\ LET event == Head(touchHandler.timers).event
       IN  /\ IF event.type = "start"
              THEN Install(onPointerStart(Board, event.pointerId, event.x, event.y))
              ELSE Install(onPointerEnd(Board, event.pointerId))
           /\ pointerInput' = [pointerInput EXCEPT !.delivered = Append(@, event)]
    /\ touchHandler' = [touchHandler EXCEPT !.timers = Tail(@)]
    /\ UNCHANGED <<commands, loopVars, gameState, errorHandling>>

TouchNext ==
    \/ RawPointerDown
    \/ RawPointerUp
    \/ TimerFires

TouchSpec == ThresholdInit /\ [][TouchNext]_vars

(***************************************************************************)
(* Properties.                                                             *)
(***************************************************************************)
IdsOf(ps) == {ps[i].id : i \in DOMAIN ps}

\* The ids a piece's connectedPieces holds.
Linked(ps, id) == Range(PieceById(ps, id).connectedPieces)

\* The connected component of a piece: the least set that holds the piece
\* and every id linked from a member.
RECURSIVE Grow(_, _)
Grow(ps, S) ==
    LET T == S \cup UNION {Linked(ps, x) : x \in S}
    IN  IF T = S THEN S ELSE Grow(ps, T)

GroupOf(ps, id) == Grow(ps, {id})

\* The step that takes the pointer off the board.
ReleaseStep ==
    /\ PointerIndex(activePointers, ThePointer) # 0
    /\ PointerIndex(activePointers', ThePointer) = 0

\* A drag is under way whose release processes a drop.
DropPending ==
    /\ activeAnimation = NoAnimation
    /\ selectedPiece # Null
    /\ hasMovedBeyondThreshold
    /\ dragPointerId = ThePointer
    /\ PointerIndex(activePointers, ThePointer) # 0

\* The pieces after the pointer is released in the current state.
AfterRelease == onPointerEnd(Board, ThePointer).pieces

\* C1: connectivity is symmetric (B is in A's connectedPieces exactly when A
\* is in B's) and no piece's connectedPieces holds the piece's own id.
SymmetricConnectivity ==
    \A i \in DOMAIN pieces :
        /\ pieces[i].id \notin Range(pieces[i].connectedPieces)
        /\ \A j \in DOMAIN pieces :
              (pieces[j].id \in Range(pieces[i].connectedPieces))
                  <=> (pieces[i].id \in Range(pieces[j].connectedPieces))

\* Two pieces are connected and a flip, rotate or double-tap has been issued.
ConnectedAfterCommand ==
    /\ commands > 0
    /\ \E i \in DOMAIN pieces : pieces[i].connectedPieces # <<>>

\* C2: groups are transitive: when A is connected with B and B with C,
\* getAllPiecesInGroup returns the same set for A, B and C.
TransitiveGroups ==
    \A a \in IdsOf(pieces) : \A b \in Linked(pieces, a) : \A c \in Linked(pieces, b) :
        /\ Range(getAllPiecesInGroup(pieces, a)) = Range(getAllPiecesInGroup(pieces, b))
        /\ Range(getAllPiecesInGroup(pieces, b)) = Range(getAllPiecesInGroup(pieces, c))

\* Two groups of two have been snapped into one group of four.
WholeGridConnected ==
    /\ \A id \in IdsOf(pieces) : Len(getAllPiecesInGroup(pieces, id)) = 4
    /\ selectedPiece = Null

\* C3: a piece's connectedPieces only grows: no step removes an id from it.
ConnectionsOnlyGrow ==
    [][\A id \in IdsOf(pieces) : Linked(pieces, id) \subseteq Linked(pieces', id)]_vars

\* A piece has been connected by two snaps, one after the other.
PieceWithTwoConnections ==
    \E i \in DOMAIN pieces : Len(pieces[i].connectedPieces) = 2

\* C4: a snap that connects a and b gives every piece of a's or b's group the
\* union of the two groups less its own id and leaves the connectedPieces of
\* every other piece alone; so in every state each piece's connectedPieces is
\* its whole group less itself.
MergeGivesWholeGroup ==
    /\ [](\A id \in IdsOf(pieces) : Linked(pieces, id) = GroupOf(pieces, id) \ {id})
    /\ [][(DropPending /\ ReleaseStep /\ SnapOfRelease(Board) # NoSnap) =>
            LET s == SnapOfRelease(Board)
                merged == GroupOf(pieces, s.groupPiece)
                            \cup GroupOf(pieces, s.snapTarget.targetPiece)
            IN  \A id \in IdsOf(pieces) :
                    IF id \in merged
                    THEN Linked(pieces', id) = merged \ {id}
                    ELSE PieceById(pieces', id).connectedPieces
                           = PieceById(pieces, id).connectedPieces]_vars

\* A group of two is about to be snapped onto another group of two, the
\* fourth piece being the target.
GroupMeetsGroup ==
    /\ DropPending
    /\ SnapOfRelease(Board) # NoSnap
    /\ Cardinality(GroupOf(pieces, selectedPiece)) = 2
    /\ Cardinality(GroupOf(pieces, SnapOfRelease(Board).snapTarget.targetPiece)) = 2
    /\ \A id \in IdsOf(pieces) : Cardinality(Linked(AfterRelease, id)) = 3

\* The dragged group in the order the release handler walks it.
DraggedGroup == getAllPiecesInGroup(pieces, selectedPiece)

\* The valid candidates of a release: member k of the dragged group and
\* piece i of the list, mating, and nearer than the threshold.
Candidates ==
    {c \in (DOMAIN DraggedGroup) \X (DOMAIN pieces) :
        LET g == PieceById(pieces, DraggedGroup[c[1]])
            t == pieces[c[2]]
        IN  /\ g.faceUp
            /\ SnapEligible(g, t)
            /\ SnapOnto(g, t, g.x, g.y).distance2 < Sq(SNAP_DISTANCE)}

CandidateDistance2(c) ==
    LET g == PieceById(pieces, DraggedGroup[c[1]])
    IN  SnapOnto(g, pieces[c[2]], g.x, g.y).distance2

\* The nearest candidate, and among equally near ones the first in
\* iteration order (members first, then the piece list).
FirstNearest ==
    CHOOSE c \in Candidates : \A e \in Candidates :
        \/ CandidateDistance2(c) < CandidateDistance2(e)
        \/ /\ CandidateDistance2(c) = CandidateDistance2(e)
           /\ (c[1] < e[1] \/ (c[1] = e[1] /\ c[2] <= e[2]))

\* C5: a release after a drag applies the nearest of the valid candidates
\* over all members of the dragged group, a candidate being valid only when
\* strictly nearer than SNAP_DISTANCE; with no valid candidate no connection
\* is made; of equally near candidates the first in iteration order wins.
NearestSnapChosen ==
    [][(DropPending /\ ReleaseStep) =>
         IF Candidates = {}
         THEN \A id \in IdsOf(pieces) :
                 PieceById(pieces', id).connectedPieces
                   = PieceById(pieces, id).connectedPieces
         ELSE LET g == PieceById(pieces, DraggedGroup[FirstNearest[1]])
                  t == pieces[FirstNearest[2]]
                  s == SnapOfRelease(Board)
              IN  /\ s # NoSnap
                  /\ s.groupPiece = g.id
                  /\ s.snapTarget.targetPiece = t.id
                  /\ s.snapTarget.distance2 = CandidateDistance2(FirstNearest)
                  /\ t.id \in Linked(pieces', g.id)
                  /\ PieceById(pieces', g.id).x = SnapOnto(g, t, g.x, g.y).snapX
                  /\ PieceById(pieces', g.id).y = SnapOnto(g, t, g.x, g.y).snapY]_vars

\* A drop with two equally near candidates of different members of the
\* dragged group and a farther one; the release connects the first of the
\* nearest.
TiedCandidates ==
    /\ DropPending
    /\ \E c, e \in Candidates :
          /\ c[1] # e[1]
          /\ CandidateDistance2(c) = CandidateDistance2(e)
          /\ c = FirstNearest
    /\ LET g == DraggedGroup[FirstNearest[1]]
           t == pieces[FirstNearest[2]].id
       IN  t \notin Linked(pieces, g) /\ t \in Linked(AfterRelease, g)

\* C6: no snap joins two pieces of one group: the target findSnapTarget
\* returns for a piece is never a member of that piece's group.
NoSnapInsideGroup ==
    \A i \in DOMAIN pieces :
        LET s == findSnapTarget(pieces[i], pieces, pieces[i].x, pieces[i].y)
        IN  s # NoSnap =>
              s.targetPiece \notin Range(getAllPiecesInGroup(pieces, pieces[i].id))

\* A group of three is dropped where a member that has a mate inside the
\* group is also in reach of the piece outside it.
GroupOfThreeSnaps ==
    /\ DropPending
    /\ Len(DraggedGroup) = 3
    /\ \E k \in DOMAIN DraggedGroup :
          LET g == PieceById(pieces, DraggedGroup[k])
              s == findSnapTarget(g, pieces, g.x, g.y)
          IN  /\ s # NoSnap
              /\ \E slot \in 0 .. 3 :
                    /\ g.connections[slot] # NoConnection
                    /\ g.connections[slot].matingPieceId \in Range(DraggedGroup)
                    /\ g.connections[slot].matingPieceId # s.targetPiece

\* C7: the matched pair of a snap is a mating pair: findSnapTarget returns
\* no snap for a face-down dragged piece, never a face-down target, and a
\* target only when a connection slot of the dragged piece names it; the
\* absence of a match is the null result.
ValidMatingPair ==
    \A i \in DOMAIN pieces :
        LET d == pieces[i]
            s == findSnapTarget(d, pieces, d.x, d.y)
        IN  /\ ~d.faceUp => s = NoSnap
            /\ s = NoSnap \/ s.found
            /\ s # NoSnap =>
                 /\ PieceById(pieces, s.targetPiece).faceUp
                 /\ \E slot \in 0 .. 3 :
                       /\ d.connections[slot] # NoConnection
                       /\ d.connections[slot].matingPieceId = s.targetPiece
                       /\ s.connection = d.connections[slot]

\* The place findSnapTarget would put the piece d next to the piece t is
\* nearer than the threshold, and the two are neither the same piece nor
\* connected.
InReach(d, t) ==
    /\ d.id # t.id
    /\ t.id \notin Range(d.connectedPieces)
    /\ getConnection(d, t) # NoConnection
    /\ d.rotation = t.rotation
    /\ SnapOnto(d, t, d.x, d.y).distance2 < Sq(SNAP_DISTANCE)

\* A face-down piece lies in reach of a face-up mate, and neither is given
\* a target.
FaceDownInReach ==
    /\ \E i, j \in DOMAIN pieces :
          /\ InReach(pieces[i], pieces[j])
          /\ ~pieces[i].faceUp
          /\ pieces[j].faceUp
          /\ findSnapTarget(pieces[j], pieces, pieces[j].x, pieces[j].y) = NoSnap
          /\ findSnapTarget(pieces[i], pieces, pieces[i].x, pieces[i].y) = NoSnap

\* The piece list in another order.
Reordered(ps, perm) == [i \in DOMAIN ps |-> ps[perm[i]]]

\* The pieces (by index) that are valid targets of the piece d within the
\* threshold.
TargetsInReach(d) ==
    {j \in DOMAIN pieces : d.faceUp /\ pieces[j].faceUp /\ InReach(d, pieces[j])}

\* C8: snap detection does not depend on the order of the piece list when
\* exactly one candidate lies within the threshold: findSnapTarget returns
\* that candidate for every ordering of the list.
SnapIndependentOfOrder ==
    \A i \in DOMAIN pieces :
        LET d == pieces[i]
        IN  Cardinality(TargetsInReach(d)) = 1 =>
              LET t == pieces[CHOOSE j \in TargetsInReach(d) : TRUE]
              IN  \A perm \in Permutations(DOMAIN pieces) :
                     findSnapTarget(d, Reordered(pieces, perm), d.x, d.y)
                         = SnapOnto(d, t, d.x, d.y)

\* A piece has one mate in reach and its other mate, also face up and
\* unconnected, out of reach and earlier in the piece list.
OneInReachOneBeyond ==
    \E i \in DOMAIN pieces :
        LET d == pieces[i]
        IN  /\ Cardinality(TargetsInReach(d)) = 1
            /\ \E j \in DOMAIN pieces :
                  /\ SnapEligible(d, pieces[j])
                  /\ j \notin TargetsInReach(d)
                  /\ \A k \in TargetsInReach(d) : j < k
            /\ findSnapTarget(d, pieces, d.x, d.y) # NoSnap

\* C9: a release that snaps translates every piece of the dragged group by one
\* delta, which puts the matched piece at the snap position; the target and
\* every piece outside the dragged group keep position and rotation; and the
\* one new connection (matched piece, target) is recorded before the merge.
SnapMovesDraggedGroup ==
    [][(DropPending /\ ReleaseStep /\ SnapOfRelease(Board) # NoSnap) =>
         LET s == SnapOfRelease(Board)
             g == s.groupPiece
             t == s.snapTarget.targetPiece
             group == GroupOf(pieces, selectedPiece)
             deltaX == PieceById(pieces', g).x - PieceById(pieces, g).x
             deltaY == PieceById(pieces', g).y - PieceById(pieces, g).y
             connected == Connect(pieces, g, t)
         IN  /\ PieceById(pieces', g).x = s.snapTarget.snapX
             /\ PieceById(pieces', g).y = s.snapTarget.snapY
             /\ \A id \in group :
                   /\ PieceById(pieces', id).x = PieceById(pieces, id).x + deltaX
                   /\ PieceById(pieces', id).y = PieceById(pieces, id).y + deltaY
             /\ t \notin group
             /\ \A id \in IdsOf(pieces) \ group :
                   /\ PieceById(pieces', id).x = PieceById(pieces, id).x
                   /\ PieceById(pieces', id).y = PieceById(pieces, id).y
                   /\ PieceById(pieces', id).rotation = PieceById(pieces, id).rotation
             /\ t \notin Linked(pieces, g) /\ g \notin Linked(pieces, t)
             /\ \A id \in IdsOf(pieces) :
                   Linked(connected, id) =
                       Linked(pieces, id) \cup (IF id = g THEN {t}
                                                 ELSE IF id = t THEN {g} ELSE {})
             /\ t \in Linked(pieces', g) /\ g \in Linked(pieces', t)]_vars

\* A group of two is dropped off the snap position and the release pulls
\* both of its pieces to it, the matched piece not being the held one.
GroupPulledToSnap ==
    /\ DropPending
    /\ Len(DraggedGroup) = 2
    /\ SnapOfRelease(Board) # NoSnap
    /\ SnapOfRelease(Board).groupPiece # selectedPiece
    /\ SnapOfRelease(Board).snapTarget.distance2 > 0
    /\ \A id \in Range(DraggedGroup) :
          PieceById(AfterRelease, id).y # PieceById(pieces, id).y

\* C10: once a piece is locked, no press, drag or release changes its x, y
\* or rotation.
LockedPiecesStay ==
    [][commands' = commands =>
         \A id \in IdsOf(pieces) :
             PieceById(pieces, id).isLocked =>
                 /\ PieceById(pieces', id).x = PieceById(pieces, id).x
                 /\ PieceById(pieces', id).y = PieceById(pieces, id).y
                 /\ PieceById(pieces', id).rotation = PieceById(pieces, id).rotation]_vars

\* The step is a double-tap: the pieces become what onDoubleTap makes them
\* at one of the press points.
DoubleTapStep ==
    /\ commands' # commands
    /\ \E pt \in PressPoints : pieces' = onDoubleTap(Board, pt.x, pt.y).pieces

\* The step is a pointer-down: the pointer comes onto the board.
PressStep ==
    /\ PointerIndex(activePointers, ThePointer) = 0
    /\ PointerIndex(activePointers', ThePointer) # 0

\* C11: once a piece is locked, no pointer-down makes it the selected piece
\* and no double-tap rotates it, flips it or moves it.
LockedPiecesNotHit ==
    [][\A id \in IdsOf(pieces) :
          PieceById(pieces, id).isLocked =>
              /\ PressStep => selectedPiece' # id
              /\ DoubleTapStep =>
                    /\ PieceById(pieces', id).rotation = PieceById(pieces, id).rotation
                    /\ PieceById(pieces', id).faceUp = PieceById(pieces, id).faceUp]_vars

\* The pieces after the group of the piece id was double-tapped four times.
FourTurns(ps, id) ==
    LET g == getAllPiecesInGroup(ps, id)
    IN  rotateGroup(rotateGroup(rotateGroup(rotateGroup(ps, g), g), g), g)

\* C12 as stated: four double-tap rotations of a group return every member's
\* rotation and position, whatever the members' faces.
RotationClosureAnyFace ==
    \A id \in IdsOf(pieces) :
        LET after == FourTurns(pieces, id)
        IN  \A i \in DOMAIN pieces :
                /\ after[i].id = pieces[i].id
                /\ after[i].rotation = pieces[i].rotation
                /\ after[i].x = pieces[i].x
                /\ after[i].y = pieces[i].y

\* C12, amended: four double-tap rotations of a group return every piece's
\* position; a member that was face up gets its rotation back and stays face
\* up, and a member that was face down ends face up with its rotation 270
\* further (the first turn flips it instead of rotating it).
RotationClosure ==
    \A id \in IdsOf(pieces) :
        LET g == Range(getAllPiecesInGroup(pieces, id))
        IN  FourTurns(pieces, id) =
              [i \in DOMAIN pieces |->
                 IF pieces[i].id \notin g \/ pieces[i].faceUp THEN pieces[i]
                 ELSE [pieces[i] EXCEPT !.faceUp = TRUE,
                                        !.rotation = (@ + 270) % 360]]

\* A group of two or more was turned by a double-tap and one of its members
\* was then flipped face down: the four turns act on a turned group of
\* mixed faces.
TurnedGroupOfMixedFaces ==
    \E id \in IdsOf(pieces) :
        LET g == getAllPiecesInGroup(pieces, id)
        IN  /\ Len(g) >= 2
            /\ PieceById(pieces, id).rotation # 0
            /\ PieceById(pieces, id).faceUp
            /\ \E m \in Range(g) : ~PieceById(pieces, m).faceUp
            /\ FourTurns(pieces, id) # pieces

\* C13: all members of a connected group have the same rotation, and a step
\* that changes the rotation of one member changes the rotation of every
\* member of its group by the same amount.
GroupsTurnRigidly ==
    /\ [](\A id \in IdsOf(pieces) :
            \A m \in GroupOf(pieces, id) :
                PieceById(pieces, m).rotation = PieceById(pieces, id).rotation)
    /\ [][\A id \in IdsOf(pieces) :
            \A m \in GroupOf(pieces, id) :
                (PieceById(pieces', m).rotation - PieceById(pieces, m).rotation) % 360
                  = (PieceById(pieces', id).rotation - PieceById(pieces, id).rotation) % 360]_vars

\* The sum of the centres of the pieces of S, as a point.
RECURSIVE CentreSum(_, _)
CentreSum(ps, S) ==
    IF S = {} THEN Pt(0, 0)
    ELSE LET id == CHOOSE id \in S : TRUE
             c == PieceCentre(PieceById(ps, id))
             rest == CentreSum(ps, S \ {id})
         IN  Pt(c.x + rest.x, c.y + rest.y)

\* The piece a double-tap at the screen point pt resolves to: the topmost
\* piece whose rectangle contains the point, or Null.
TappedAt(pt) ==
    LET world == screenToWorld(camera, pt.x, pt.y)
        hits == {i \in DOMAIN pieces : containsPoint(pieces[i], world.x, world.y)}
    IN  IF hits = {} THEN Null
        ELSE pieces[CHOOSE i \in hits : \A j \in hits : j <= i].id

\* C14: a double-tap on a piece turns the centre offset of every member of
\* its group from the group centroid by a quarter ((dx, dy) becomes
\* (-dy, dx)), flips a face-down member face up with its rotation unchanged,
\* adds 90 modulo 360 to the rotation of a face-up member, and leaves the
\* pieces outside the group unchanged.  (With n members and S the sum of
\* their centres, n * dx is n * centre.x - S.x.)
DoubleTapTurnsGroup ==
    \A pt \in PressPoints :
        LET after == onDoubleTap(Board, pt.x, pt.y).pieces
            hit == TappedAt(pt)
        IN  IF hit = Null THEN after = pieces
            ELSE LET G == GroupOf(pieces, hit)
                     n == Cardinality(G)
                     S == CentreSum(pieces, G)
                 IN  \A i \in DOMAIN pieces :
                        IF pieces[i].id \notin G THEN after[i] = pieces[i]
                        ELSE LET c == PieceCentre(pieces[i])
                                 d == PieceCentre(after[i])
                             IN  /\ after[i].id = pieces[i].id
                                 /\ n * d.x - S.x = 0 - (n * c.y - S.y)
                                 /\ n * d.y - S.y = n * c.x - S.x
                                 /\ after[i].faceUp
                                 /\ after[i].rotation =
                                       IF pieces[i].faceUp
                                       THEN (pieces[i].rotation + 90) % 360
                                       ELSE pieces[i].rotation
                                 /\ after[i].connectedPieces = pieces[i].connectedPieces

\* A member of a group of two or more was flipped face down, and a press
\* point lies on that group: the double-tap there acts on a face-down and a
\* face-up member.
MixedGroupUnderTap ==
    /\ commands > 0
    /\ \E pt \in PressPoints :
          /\ TappedAt(pt) # Null
          /\ Cardinality(GroupOf(pieces, TappedAt(pt))) >= 2
          /\ \E a, b \in GroupOf(pieces, TappedAt(pt)) :
                PieceById(pieces, a).faceUp /\ ~PieceById(pieces, b).faceUp
          /\ onDoubleTap(Board, pt.x, pt.y).pieces # pieces

\* The places in the draw order of the unlocked pieces whose rectangle
\* contains the world point (x, y).
UnlockedAt(ps, x, y) ==
    {i \in DOMAIN ps : ~ps[i].isLocked /\ containsPoint(ps[i], x, y)}

\* The place of the piece a press should pick among the places C: its group
\* is of minimal size, and it is the topmost of those whose groups have that
\* size.
PickAmong(ps, C) ==
    CHOOSE k \in C :
        \A j \in C :
            /\ Cardinality(GroupOf(ps, ps[k].id)) <= Cardinality(GroupOf(ps, ps[j].id))
            /\ Cardinality(GroupOf(ps, ps[j].id)) = Cardinality(GroupOf(ps, ps[k].id))
                  => j <= k

\* The world point of the press that the step makes.
PressedWorld ==
    LET e == activePointers'[PointerIndex(activePointers', ThePointer)]
    IN  screenToWorld(camera, e.x, e.y)

\* C15: on a pointer-down, the piece selected is, among the unlocked pieces
\* whose rectangle contains the point, one whose group is of minimal size,
\* and the topmost of the candidates whose groups have that size.
SmallestGroupPicked ==
    [][(PressStep /\ selectedPiece' # Null) =>
          LET C == UnlockedAt(pieces, PressedWorld.x, PressedWorld.y)
          IN  /\ C # {}
              /\ selectedPiece' = pieces[PickAmong(pieces, C)].id]_vars

\* No pointer is down, and the centre of a single piece lies under a member
\* of a group of two that is drawn above it: the press there selects the
\* single piece.
SmallGroupBehindLarge ==
    /\ PointerIndex(activePointers, ThePointer) = 0
    /\ \E i, j \in DOMAIN pieces :
          LET c == PieceCentre(pieces[i])
              pt == worldToScreen(camera, c.x, c.y)
          IN  /\ i < j
              /\ {i, j} \subseteq UnlockedAt(pieces, c.x, c.y)
              /\ Cardinality(GroupOf(pieces, pieces[i].id)) = 1
              /\ Cardinality(GroupOf(pieces, pieces[j].id)) = 2
              /\ onPointerStart(Board, ThePointer, pt.x, pt.y).selectedPiece
                    = pieces[i].id

\* C16: with one pointer and no animation, a pointer-down inside an unlocked
\* piece selects a hit piece and makes the pointer the drag pointer, without
\* a pan, and a pointer-down that hits no unlocked piece begins a pan,
\* whatever piece was selected before.
PressDragsOrPans ==
    [][(PressStep /\ activeAnimation = NoAnimation) =>
          LET C == UnlockedAt(pieces, PressedWorld.x, PressedWorld.y)
          IN  IF C # {}
              THEN /\ selectedPiece' \in {pieces[i].id : i \in C}
                   /\ dragPointerId' = ThePointer
                   /\ panPointerId' = Null
              ELSE /\ selectedPiece' = Null
                   /\ dragPointerId' = Null
                   /\ panPointerId' = ThePointer]_vars

\* The pieces' positions are the same after the step.
PositionsKept ==
    \A id \in IdsOf(pieces) :
        /\ PieceById(pieces', id).x = PieceById(pieces, id).x
        /\ PieceById(pieces', id).y = PieceById(pieces, id).y

\* The squared screen distance of the pointer after the step from where it
\* went down.
MovedFromPress2 ==
    LET e == activePointers'[PointerIndex(activePointers', ThePointer)]
    IN  Dist2(e.x, e.y, pointerDownScreenPos.x, pointerDownScreenPos.y)

\* C17: a press changes no piece's position; while the pointer that holds a
\* piece has not been further than DRAG_THRESHOLD from where it went down,
\* its moves change no piece's position and start no drag; and a release
\* before the threshold was exceeded changes no piece's position, rotation,
\* face or connectedPieces.
DragStartsBeyondThreshold ==
    [][/\ PressStep => PositionsKept
       /\ (/\ dragPointerId = ThePointer
           /\ ~hasMovedBeyondThreshold
           /\ pointerDownScreenPos # NullPos
           /\ PointerIndex(activePointers', ThePointer) # 0
           /\ MovedFromPress2 <= Sq(DRAG_THRESHOLD))
             => /\ PositionsKept
                /\ ~hasMovedBeyondThreshold'
                /\ ~isDragging'
       /\ (ReleaseStep /\ ~hasMovedBeyondThreshold)
             => /\ PositionsKept
                /\ \A id \in IdsOf(pieces) :
                      /\ PieceById(pieces', id).rotation = PieceById(pieces, id).rotation
                      /\ PieceById(pieces', id).faceUp = PieceById(pieces, id).faceUp
                      /\ PieceById(pieces', id).connectedPieces
                            = PieceById(pieces, id).connectedPieces]_vars

\* The pointer holds a piece and has moved exactly DRAG_THRESHOLD from where
\* it went down without starting a drag, and the held piece lies where a
\* processed drop would snap it to a mate.
HeldAtThresholdInReach ==
    /\ PointerIndex(activePointers, ThePointer) # 0
    /\ dragPointerId = ThePointer
    /\ selectedPiece # Null
    /\ ~hasMovedBeyondThreshold
    /\ pointerDownScreenPos # NullPos
    /\ LET e == activePointers[PointerIndex(activePointers, ThePointer)]
       IN  Dist2(e.x, e.y, pointerDownScreenPos.x, pointerDownScreenPos.y)
             = Sq(DRAG_THRESHOLD)
    /\ BestSnap(pieces, selectedPiece) # NoSnap
    /\ AfterRelease = [i \in DOMAIN pieces |-> [pieces[i] EXCEPT !.isDragging = FALSE]]

\* The step is a pointer move: the pointer is on the board before and after.
MoveStep ==
    /\ PointerIndex(activePointers, ThePointer) # 0
    /\ PointerIndex(activePointers', ThePointer) # 0
    /\ commands' = commands

\* C18: a move of the pointer translates the selected piece and every other
\* member of its group by the same delta, and changes the position of no
\* piece outside that group.
DragTranslatesGroup ==
    [][MoveStep =>
          LET G == IF selectedPiece = Null THEN {} ELSE GroupOf(pieces, selectedPiece)
          IN  /\ \A id \in IdsOf(pieces) \ G :
                    /\ PieceById(pieces', id).x = PieceById(pieces, id).x
                    /\ PieceById(pieces', id).y = PieceById(pieces, id).y
              /\ \A a, b \in G :
                    /\ PieceById(pieces', a).x - PieceById(pieces, a).x
                          = PieceById(pieces', b).x - PieceById(pieces, b).x
                    /\ PieceById(pieces', a).y - PieceById(pieces, a).y
                          = PieceById(pieces', b).y - PieceById(pieces, b).y
              /\ \A id \in G : GroupOf(pieces', id) = G]_vars

\* A group of three is being dragged, and none of its members lies in the
\* column of its place in the assembly or of its far place: the move
\* carried all three members.
GroupOfThreeDragged ==
    /\ isDragging
    /\ hasMovedBeyondThreshold
    /\ selectedPiece # Null
    /\ Cardinality(GroupOf(pieces, selectedPiece)) = 3
    /\ \A id \in GroupOf(pieces, selectedPiece) :
          /\ PieceById(pieces, id).x # GridPlace(id, Pt(0, 0)).x
          /\ PieceById(pieces, id).x # GridFar(id).x

\* C19: when a second pointer goes down while one pointer holds a piece, the
\* board is pinching and the drag is cancelled without moving a piece; and
\* while pointers are down and no drag is recorded, no step changes a
\* piece's position or connectedPieces, and no drag is recorded again before
\* all pointers are released.
SecondPointerCancelsDrag ==
    [][/\ (Len(activePointers) = 1 /\ dragPointerId # Null /\ Len(activePointers') = 2)
             => /\ isPinching'
                /\ dragPointerId' = Null
                /\ ~isDragging'
                /\ ~hasMovedBeyondThreshold'
                /\ \A i \in DOMAIN pieces' : ~pieces'[i].isDragging
                /\ PositionsKept
       /\ (activePointers # <<>> /\ dragPointerId = Null)
             => /\ PositionsKept
                /\ \A id \in IdsOf(pieces) :
                      PieceById(pieces', id).connectedPieces
                         = PieceById(pieces, id).connectedPieces
                /\ activePointers' # <<>> => dragPointerId' = Null]_vars

\* A drag was cancelled by a second pointer, the pinch moved the camera, the
\* second pointer went up, and the first pointer is still down on its
\* piece, which lies where the drag brought it and where a processed drop
\* would snap it to a mate.
CancelledDragInReach ==
    /\ Len(activePointers) = 1
    /\ PointerIndex(activePointers, ThePointer) # 0
    /\ ~isPinching
    /\ selectedPiece # Null
    /\ dragPointerId = Null
    /\ panPointerId = Null
    /\ camera # InitialCamera
    /\ BestSnap(pieces, selectedPiece) # NoSnap
    /\ PieceById(pieces, selectedPiece).y # ThresholdPositions[selectedPiece + 1].y

\* The step delivers user input: a pointer goes down, moves or goes up, or
\* a double-tap or a command is given.
UserInputStep ==
    \/ activePointers' # activePointers
    \/ commands' # commands

\* C20: while an animation is active, no user input (pointer down, move or
\* up, double-tap, rotate-selected, flip-selected) changes a piece's
\* position or rotation.
AnimationSoleWriter ==
    [][(activeAnimation # NoAnimation /\ UserInputStep) =>
          \A id \in IdsOf(pieces) :
              /\ PieceById(pieces', id).x = PieceById(pieces, id).x
              /\ PieceById(pieces', id).y = PieceById(pieces, id).y
              /\ PieceById(pieces', id).rotation = PieceById(pieces, id).rotation]_vars

\* The onComplete calls among the calls of a handler.
CompletionCalls(calls) == SelectSeq(calls, LAMBDA c : c.name = "onComplete")

\* What the frame at progress 1 makes of the board.
AtFinalFrame == update(Board, 1)

\* C21: a frame that finds the progress of the active animation at 1 puts
\* every piece exactly at its target position and rotation and the camera
\* exactly at the target camera, clears the animation and calls the completion
\* callback exactly once, which finds the animation cleared; an animation
\* ends only in that way or when a puzzle load starts; and, while frames
\* continue, every started animation ends.
AnimationCompletes ==
    /\ [](activeAnimation # NoAnimation =>
            /\ \A i \in DOMAIN pieces :
                  LET target == activeAnimation.targetPieces[pieces[i].id]
                  IN  /\ AtFinalFrame.pieces[i].x = target.x
                      /\ AtFinalFrame.pieces[i].y = target.y
                      /\ AtFinalFrame.pieces[i].rotation = target.rotation
            /\ AtFinalFrame.camera = activeAnimation.targetCamera
            /\ AtFinalFrame.activeAnimation = NoAnimation
            /\ Len(CompletionCalls(AtFinalFrame.calls)) = 1
            /\ CompletionCalls(AtFinalFrame.calls)[1].activeAnimation = NoAnimation)
    /\ [][activeAnimation # NoAnimation /\ activeAnimation' = NoAnimation =>
            \/ loadPromise = "none" /\ loadPromise' = "pending"
            \/ /\ pieces' = AtFinalFrame.pieces
               /\ camera' = AtFinalFrame.camera]_vars
    /\ (activeAnimation # NoAnimation ~> activeAnimation = NoAnimation)

\* C21 witness: the completion animation of the turned puzzle has ended: no
\* animation is active, every piece lies unturned at its solved place and the
\* camera is the fit camera of the solved puzzle, zoomed out.
CompletionAnimationEnded ==
    /\ activeAnimation = NoAnimation
    /\ Len(pieces) = NumPieces
    /\ \A i \in DOMAIN pieces :
          /\ pieces[i].rotation = 0
          /\ pieces[i].x = pieces[i].originalPosition.x
          /\ pieces[i].y = pieces[i].originalPosition.y
    /\ camera.scale < SCALE_ONE

\* The board b holds no animation and no pointer or gesture state, and the
\* handler that made it did not run an animation callback.
Cancelled(b) ==
    /\ b.activeAnimation = NoAnimation
    /\ CompletionCalls(b.calls) = <<>>
    /\ b.selectedPiece = Null
    /\ b.dragPointerId = Null
    /\ b.panPointerId = Null
    /\ b.activePointers = <<>>
    /\ ~b.isPinching
    /\ b.pinchStart = NoPinch
    /\ ~b.isDragging
    /\ ~b.hasMovedBeyondThreshold

\* C22: in every state, starting a puzzle load leaves no animation in flight
\* and no pointer or gesture state, and so does resetting the view.
CancellationClearsAll ==
    /\ Cancelled(loadPuzzleStart(Board))
    /\ Cancelled(resetView(Board))

\* C23: while a puzzle load is pending, no pointer or double-tap event selects
\* a piece or changes the position, the rotation or the connections of a
\* piece; and when the new piece list is installed, no selected piece, drag
\* or animation of the replaced list is left.
NoInputOnReplacedList ==
    /\ [][(loadPromise = "pending" /\ UserInputStep) =>
            /\ selectedPiece' = selectedPiece
            /\ \A id \in IdsOf(pieces) :
                  /\ PieceById(pieces', id).x = PieceById(pieces, id).x
                  /\ PieceById(pieces', id).y = PieceById(pieces, id).y
                  /\ PieceById(pieces', id).rotation = PieceById(pieces, id).rotation
                  /\ PieceById(pieces', id).connectedPieces
                        = PieceById(pieces, id).connectedPieces]_vars
    /\ [][(loadPromise = "pending" /\ loadPromise' = "fulfilled") =>
            /\ selectedPiece' = Null
            /\ dragPointerId' = Null
            /\ ~isDragging'
            /\ activeAnimation' = NoAnimation]_vars

\* C24: when the image of a load fails, the promise of loadPuzzle is rejected,
\* no piece list is installed, and the board is left in its reset state: no
\* selected piece, no pointer, drag, pan or pinch state and no animation.
FailedLoadLeavesReset ==
    [][(loadPromise = "pending" /\ loadPromise' # "pending") =>
          \/ loadPromise' = "fulfilled"
          \/ /\ loadPromise' = "rejected"
             /\ pieces' = pieces
             /\ Cancelled(Board')
             /\ pointerDownScreenPos' = NullPos
             /\ panLast' = NullPos]_vars

\* The onProgressUpdate calls among the calls of a handler.
ProgressCalls(calls) == SelectSeq(calls, LAMBDA c : c.name = "onProgressUpdate")

\* The size of the largest connected component of the piece list.
LargestGroup(ps) ==
    LET sizes == {Cardinality(GroupOf(ps, id)) : id \in IdsOf(ps)}
    IN  CHOOSE n \in sizes : \A m \in sizes : m <= n

\* Every piece is connected to each of its neighbours in the grid.
AllAdjacentConnected(ps) ==
    \A i \in DOMAIN ps : \A slot \in 0 .. 3 :
        ps[i].connections[slot] # NoConnection =>
            ps[i].connections[slot].matingPieceId \in Linked(ps, ps[i].id)

\* What the release of the pointer makes of the board.
Released == onPointerEnd(Board, ThePointer)

\* C25: every progress report of a release carries the size of the largest
\* connected group and the number of pieces: (1, N) while no piece is
\* connected, (N, N) when every adjacent pair is connected.
ProgressReportsLargestGroup ==
    PointerIndex(activePointers, ThePointer) # 0 =>
        LET after == Released
            reports == ProgressCalls(after.calls)
            N == Len(after.pieces)
        IN  \A k \in DOMAIN reports :
               /\ reports[k].largest = LargestGroup(after.pieces)
               /\ reports[k].total = N
               /\ (\A id \in IdsOf(after.pieces) : Linked(after.pieces, id) = {})
                     => reports[k].largest = 1
               /\ AllAdjacentConnected(after.pieces) => reports[k].largest = N

\* C25 witness: a group is held where its release snaps it to the rest, and
\* the release reports (N, N) for the whole grid.
WholePuzzleReported ==
    /\ PointerIndex(activePointers, ThePointer) # 0
    /\ ~AllAdjacentConnected(pieces)
    /\ AllAdjacentConnected(Released.pieces)
    /\ ProgressCalls(Released.calls) # <<>>
    /\ \A k \in DOMAIN ProgressCalls(Released.calls) :
          /\ ProgressCalls(Released.calls)[k].largest = Len(pieces)
          /\ ProgressCalls(Released.calls)[k].total = Len(pieces)

\* C26: the progress handler is called after every interaction: by every
\* release of a pointer, whatever the press began (a click, a drag, a pan),
\* and by every double-tap, with the largest group and the number of pieces.
ProgressAfterEveryInteraction ==
    /\ PointerIndex(activePointers, ThePointer) # 0 =>
          /\ ProgressCalls(Released.calls) # <<>>
          /\ ProgressCalls(Released.calls)[1].largest
                = getLargestClusterSize(Released.pieces)
          /\ ProgressCalls(Released.calls)[1].total = Len(pieces)
    /\ \A pt \in PressPoints :
          ProgressCalls(onDoubleTap(Board, pt.x, pt.y).calls) # <<>>

\* The handler changes the position, the rotation, the face or the
\* connections of a piece of the board b when it makes the board c of it.
GeometryChanged(b, c) ==
    \E id \in IdsOf(b.pieces) :
        \/ PieceById(c.pieces, id).x # PieceById(b.pieces, id).x
        \/ PieceById(c.pieces, id).y # PieceById(b.pieces, id).y
        \/ PieceById(c.pieces, id).rotation # PieceById(b.pieces, id).rotation
        \/ PieceById(c.pieces, id).faceUp # PieceById(b.pieces, id).faceUp
        \/ PieceById(c.pieces, id).connectedPieces
              # PieceById(b.pieces, id).connectedPieces

\* The handler that made the board c called the pieces-changed handler.
PiecesChangedCalled(c) ==
    \E k \in DOMAIN c.calls : c.calls[k].name = "onPiecesChanged"

\* The handler that makes the board c of the board b calls the
\* pieces-changed handler if it changes a piece.
Notifies(b, c) == GeometryChanged(b, c) => PiecesChangedCalled(c)

\* C27: every operation that changes the position, the rotation, the face or
\* the connections of a piece is followed by a call of the pieces-changed
\* handler before the next interaction begins: the release that ends a drag
\* which has moved pieces, the release that snaps, the double-tap that turns a
\* group, and the flip-selected and rotate-selected commands.
PiecesChangedAfterEveryMutation ==
    /\ (PointerIndex(activePointers, ThePointer) # 0 /\ hasMovedBeyondThreshold)
          => PiecesChangedCalled(Released)
    /\ PointerIndex(activePointers, ThePointer) # 0 => Notifies(Board, Released)
    /\ \A pt \in PressPoints : Notifies(Board, onDoubleTap(Board, pt.x, pt.y))
    /\ Notifies(Board, flipSelectedPiece(Board))
    /\ Notifies(Board, rotateSelectedPiece(Board))

\* C28: in every reachable state the camera scale lies between MIN_SCALE and
\* MAX_SCALE.
ScaleInRange == camera.scale >= MIN_SCALE /\ camera.scale <= MAX_SCALE

\* The camera zoomAtScreenPoint leaves.
Zoomed(pt, f) == zoomAtScreenPoint(Board, pt.x, pt.y, f).camera

\* The world point under the screen point pt and its screen point at the
\* scale s have integer coordinates: the integer arithmetic of the model is
\* that of the floating-point code.
ZoomExact(pt, s) ==
    LET w == screenToWorld(camera, pt.x, pt.y)
    IN  /\ ((pt.x - camera.offsetX) * SCALE_ONE) % camera.scale = 0
        /\ ((pt.y - camera.offsetY) * SCALE_ONE) % camera.scale = 0
        /\ (w.x * s) % SCALE_ONE = 0
        /\ (w.y * s) % SCALE_ONE = 0

\* C29: a zoom at the screen point (x, y) by a factor makes the scale the
\* clamped product of the old scale and the factor and keeps the world point
\* that was under (x, y) under (x, y); when the clamped scale is the old
\* scale the camera is left as it is.
ZoomKeepsAnchor ==
    camera.scale # NAN_SCALE =>
        \A pt \in TouchPoints, f \in WheelFactors :
            LET newScale == clampScale((camera.scale * f.num) \div f.den)
                w == screenToWorld(camera, pt.x, pt.y)
                after == Zoomed(pt, f)
            IN  /\ after.scale = newScale
                /\ newScale = camera.scale => after = camera
                /\ ZoomExact(pt, newScale) =>
                      /\ screenToWorld(after, pt.x, pt.y) = w
                      /\ worldToScreen(after, w.x, w.y) = pt

\* C29 witness: the camera is not at the scale 1 and not at the offset 0 any
\* more (it has been fitted, zoomed or pinched), and a wheel event at a point
\* whose world point is exact changes its scale and its offset.
ZoomOfMovedCamera ==
    /\ camera.scale \notin {NAN_SCALE, SCALE_ONE}
    /\ camera.offsetX # 0
    /\ \E pt \in TouchPoints, f \in WheelFactors :
          /\ ZoomExact(pt, Zoomed(pt, f).scale)
          /\ Zoomed(pt, f).scale # camera.scale
          /\ Zoomed(pt, f).offsetX # camera.offsetX

\* World points whose coordinates are multiples of SCALE_ONE: their screen
\* coordinates are integers at every scale.
WorldPoints ==
    {Pt(SCALE_ONE * x, SCALE_ONE * y) : x \in {0 - 250, 0, 3, 1000}, y \in {0 - 7, 0, 525}}

\* C30: for every camera with a scale in the range and every world point P,
\* screenToWorld of the screen point of P (world * scale + offset) is P.
CameraRoundTrip ==
    (camera.scale >= MIN_SCALE /\ camera.scale <= MAX_SCALE) =>
        \A P \in WorldPoints :
            LET screen == worldToScreen(camera, P.x, P.y)
            IN  screenToWorld(camera, screen.x, screen.y) = P

\* C30 witness: after a wheel event by the factor 3/4 the camera is at the
\* scale of three quarters, with both offsets moved off 0.
CameraZoomedOutAndMoved ==
    /\ camera.scale = 3
    /\ camera.offsetX # 0
    /\ camera.offsetY # 0
    /\ commands > 0

\* The calls of a frame that finds `total` in the accumulator: one update of
\* the fixed step per whole interval, then one render.
FrameCalls(total, interval) ==
    [i \in 1 .. (total \div interval) + 1 |->
        IF i <= total \div interval
        THEN [name |-> "update", deltaTime |-> interval]
        ELSE [name |-> "render"]]

\* What a frame of the running loop does, given the application after it.
FollowsPattern(after) ==
    LET total == gameLoop.accumulator + (browser.now - gameLoop.lastTime)
        interval == gameLoop.frameInterval
    IN  /\ after.calls = FrameCalls(total, interval)
        /\ after.gameLoop.accumulator = total - (total \div interval) * interval
        /\ after.gameLoop.accumulator >= 0
        /\ after.gameLoop.accumulator < interval

\* C31: a frame of the running loop calls update once per whole frame interval
\* in the accumulated time, each time with the frame interval, leaves the rest
\* (less than one interval) in the accumulator and then calls render once;
\* start on a running loop changes nothing and requests no frame, at most one
\* frame is requested at a time, and a stopped loop has no frame requested,
\* so that neither update nor render is called after stop.
AccumulatorPattern ==
    /\ \A id \in browser.frames : FollowsPattern(FrameFired(App, id))
    /\ Cardinality(browser.frames) <= 1
    /\ gameLoop.running => start(App) = App
    /\ gameLoop.running => browser.frames = {gameLoop.animationFrameId}
    /\ ~gameLoop.running => browser.frames = {}
    /\ ~gameLoop.running =>
          \A id \in 1 .. browser.nextFrameId : FrameFired(App, id).calls = <<>>

\* A frame is about to run after more than two frame intervals, with a rest.
LongFramePending ==
    /\ gameLoop.running
    /\ browser.frames # {}
    /\ gameLoop.accumulator > 0
    /\ gameLoop.accumulator + (browser.now - gameLoop.lastTime)
          > 2 * gameLoop.frameInterval
    /\ (gameLoop.accumulator + (browser.now - gameLoop.lastTime))
          % gameLoop.frameInterval # 0

\* The angle lerpAngle moves by between t = 0 and t = 1.
AngleDelta(from, to) == lerpAngle(from, to, 1) - lerpAngle(from, to, 0)

\* C32: for the start and the target rotation of every piece of an animation,
\* lerpAngle starts at the start rotation, moves by at most 180 degrees, and
\* where it arrives at t = 1 is the target rotation modulo 360.
ShortestAngularPath ==
    activeAnimation # NoAnimation =>
        \A id \in PieceIds :
            LET from == activeAnimation.startPieces[id].rotation
                to == activeAnimation.targetPieces[id].rotation
            IN  /\ lerpAngle(from, to, 0) = from
                /\ AngleDelta(from, to) <= 180
                /\ AngleDelta(from, to) >= 0 - 180
                /\ (from + AngleDelta(from, to) - to) % 360 = 0
                /\ (lerpAngle(from, to, 1) - to) % 360 = 0

\* An animation turns one piece from 270 to 0 and another from 180 to 0,
\* while a third stays at 0.
TurnAcrossZero ==
    /\ activeAnimation # NoAnimation
    /\ \E id \in PieceIds :
          /\ activeAnimation.startPieces[id].rotation = 270
          /\ activeAnimation.targetPieces[id].rotation = 0
    /\ \E id \in PieceIds :
          /\ activeAnimation.startPieces[id].rotation = 0
          /\ activeAnimation.targetPieces[id].rotation = 0
    /\ \E id \in PieceIds :
          /\ activeAnimation.startPieces[id].rotation = 180
          /\ activeAnimation.targetPieces[id].rotation = 0

\* The piece id is at rotation 0 within the tolerance of its solved place.
InPlace(ps, id) ==
    /\ PieceById(ps, id).rotation = 0
    /\ isPieceCorrectlyPlaced(PieceById(ps, id))

\* The release of the pointer that holds a piece or pressed on locked pieces,
\* while no animation runs: handlePointerUp runs to its end.
ProcessedRelease ==
    /\ dragPointerId # Null
    /\ PointerIndex(activePointers, dragPointerId) # 0
    /\ PointerIndex(activePointers', dragPointerId) = 0
    /\ activeAnimation = NoAnimation

\* C33: a step that locks a piece leaves that piece at rotation 0 within the
\* tolerance of its solved place, and after a release that handlePointerUp
\* processes every piece at rotation 0 within the tolerance is locked (so
\* all are, when the puzzle lies assembled in place).
LockedWhenInPlace ==
    [][/\ \A id \in PieceIds :
             (~PieceById(pieces, id).isLocked /\ PieceById(pieces', id).isLocked)
                 => InPlace(pieces', id)
       /\ ProcessedRelease =>
             \A id \in PieceIds : InPlace(pieces', id) => PieceById(pieces', id).isLocked
      ]_vars

\* The puzzle lies assembled in place after a release: the pieces are one
\* group, each at rotation 0 within the tolerance of its solved place, and
\* each is locked.
AssembledInPlaceLocked ==
    /\ Len(getAllPiecesInGroup(pieces, 0)) = NumPieces
    /\ \A id \in PieceIds : InPlace(pieces, id) /\ PieceById(pieces, id).isLocked
    /\ activePointers = <<>>

\* The pieces id and its mate of the slot are in different groups.
MateOutsideGroup(ps, id, slot) ==
    /\ PieceById(ps, id).connections[slot].edge # "none"
    /\ PieceById(ps, id).connections[slot].matingPieceId
          \notin Range(getAllPiecesInGroup(ps, id))

\* No snap can occur any more: the pieces are not one group, and wherever
\* two mating pieces are in different groups, every piece of both groups is
\* locked, so that neither group can be picked up.
NoSnapLeft(ps) ==
    /\ Len(getAllPiecesInGroup(ps, ps[1].id)) < Len(ps)
    /\ \A id \in {ps[i].id : i \in DOMAIN ps} :
          (\E slot \in 0 .. 3 : MateOutsideGroup(ps, id, slot))
              => \A other \in Range(getAllPiecesInGroup(ps, id)) :
                    PieceById(ps, other).isLocked

\* C34: in every reachable state the puzzle can still be completed: either
\* the pieces are one group, or some group with a mate outside it has a
\* piece that is not locked.
AlwaysCompletable == ~NoSnapLeft(pieces)

\* C35: while a game is on, its state is 'completed' exactly when the largest
\* group the board has reported holds all the pieces generated for the
\* chosen difficulty (rows x cols), and the total the game counts to is
\* that number.
CompletedWhenAllConnected ==
    gameState.stats # NoStats =>
        /\ gameState.stats.totalPieces = GeneratedCount(gameState.puzzleConfig)
        /\ gameState.currentState = "completed"
              <=> gameState.stats.piecesPlaced = GeneratedCount(gameState.puzzleConfig)

\* How many times the events announce the state 'completed'.
RECURSIVE CompletedCount(_)
CompletedCount(events) ==
    IF events = <<>> THEN 0
    ELSE (IF Head(events) = StateChanged("completed") THEN 1 ELSE 0)
         + CompletedCount(Tail(events))

\* The game state after the release of the pointer, with the events emitted.
GameAfterRelease ==
    Deliver(GameState, onPointerEnd(Board, ThePointer).calls, browser.now)

\* C36: in one game the state 'completed' is announced at most once (and the
\* end time set as often): a release of the pointer announces it at most
\* once when the game is not completed yet, and not at all when it is.
CompletedAtMostOnce ==
    (gameState.stats # NoStats /\ PointerIndex(activePointers, ThePointer) # 0) =>
        CompletedCount(GameAfterRelease.emitted)
            <= (IF gameState.currentState = "completed" THEN 0 ELSE 1)

\* The order of two pieces that are both in the group, or both outside it, is
\* the same in the two lists.
SameOrderWithin(before, after, ids) ==
    \A a \in ids, c \in ids :
        (IndexOf(before, a) < IndexOf(before, c)) = (IndexOf(after, a) < IndexOf(after, c))

\* What bringToFront has to make of the list for the group of a piece.
BroughtToFront(before, after, id) ==
    LET group == Range(getAllPiecesInGroup(before, id))
        others == IdsOf(before) \ group
    IN  /\ Len(after) = Len(before)
        /\ \A i \in DOMAIN before : \E j \in DOMAIN after : after[j] = before[i]
        /\ \A i, j \in DOMAIN after : (i # j) => (after[i].id # after[j].id)
        /\ \A a \in others, c \in group : IndexOf(after, a) < IndexOf(after, c)
        /\ SameOrderWithin(before, after, group)
        /\ SameOrderWithin(before, after, others)

Placement(ps) ==
    [id \in IdsOf(ps) |-> [x |-> PieceById(ps, id).x, y |-> PieceById(ps, id).y,
                           rotation |-> PieceById(ps, id).rotation]]

\* The pieces, put at the places `place`, are the solved puzzle turned as a
\* whole by r: every piece has the rotation r and the centres lie to each
\* other as the solved centres turned by r.
RigidTurnedBy(ps, place, r) ==
    /\ \A id \in IdsOf(ps) : place[id].rotation = r
    /\ \A i, j \in DOMAIN ps :
          LET solved == rotateVector(
                  (ps[i].originalPosition.x + ps[i].width \div 2)
                    - (ps[j].originalPosition.x + ps[j].width \div 2),
                  (ps[i].originalPosition.y + ps[i].height \div 2)
                    - (ps[j].originalPosition.y + ps[j].height \div 2), r)
          IN  /\ (place[ps[i].id].x + ps[i].width \div 2)
                   - (place[ps[j].id].x + ps[j].width \div 2) = solved.x
              /\ (place[ps[i].id].y + ps[i].height \div 2)
                   - (place[ps[j].id].y + ps[j].height \div 2) = solved.y

RigidTurned(ps, place) == \E r \in Rotations : RigidTurnedBy(ps, place, r)

\* The board b has ended the completion animation: no animation is left,
\* every piece lies unturned at its solved place, and the completion callback
\* has run once, after the pieces-changed handler.
NormalizeEnded(b) ==
    /\ b.activeAnimation = NoAnimation
    /\ \A i \in DOMAIN b.pieces :
          /\ b.pieces[i].rotation = 0
          /\ b.pieces[i].x = b.pieces[i].originalPosition.x
          /\ b.pieces[i].y = b.pieces[i].originalPosition.y
    /\ Len(CompletionCalls(b.calls)) = 1
    /\ \E i, j \in DOMAIN b.calls :
          /\ i < j
          /\ b.calls[i].name = "onPiecesChanged"
          /\ b.calls[j].name = "onComplete"

\* C39: when animateCompletionNormalize runs on a puzzle whose pieces are all
\* connected and form the solved puzzle turned as a whole by 0, 90, 180 or
\* 270 degrees, then at the end of the animation every piece has the rotation
\* 0 and lies at its solved place, and the completion callback has run after
\* the pieces-changed handler.
NormalizeSolvesTurnedPuzzle ==
    /\ (/\ activeAnimation = NoAnimation
        /\ Len(pieces) > 0
        /\ Len(getAllPiecesInGroup(pieces, pieces[1].id)) = Len(pieces)
        /\ RigidTurned(pieces, Placement(pieces)))
         => NormalizeEnded(update(animateCompletionNormalize(Board), 1))
    /\ (/\ activeAnimation # NoAnimation
        /\ activeAnimation.onComplete = "normalize"
        /\ RigidTurned(pieces, activeAnimation.startPieces))
         => NormalizeEnded(update(Board, 1))

\* The completion animation is in flight on a puzzle that was turned by 270
\* degrees and lay away from its solved place.
TurnedPuzzleNormalizing ==
    /\ activeAnimation # NoAnimation
    /\ activeAnimation.onComplete = "normalize"
    /\ RigidTurnedBy(pieces, activeAnimation.startPieces, 270)
    /\ \E i \in DOMAIN pieces :
          activeAnimation.startPieces[pieces[i].id].x # pieces[i].originalPosition.x

\* handleError rethrows the failures of the call: its context has the
\* severity critical and the page is served from localhost.
RethrownByHandleError ==
    errorHandling.context.severity = "critical" /\ errorHandling.localhost

\* C40 as stated: the operation is called at most maxRetries + 1 times, a
\* call with a fallback never throws, and a photo search with a non-empty
\* query never throws.
FallbackAfterFinalFailure ==
    /\ errorHandling.invocations <= RetryLimit(errorHandling.context) + 1
    /\ ~(errorHandling.status = "thrown" /\ errorHandling.fallback)
    /\ errorHandling.query # <<>> => errorHandling.status # "thrown"

\* What holds of the call in every state.
RetryBounds ==
    /\ errorHandling.invocations <= RetryLimit(errorHandling.context) + 1
    /\ (errorHandling.status = "running" /\ errorHandling.lastError # NoError)
          => errorHandling.lastError.retryable
    /\ (errorHandling.status = "thrown" /\ errorHandling.thrown # "emptyQuery")
          => (RethrownByHandleError \/ ~errorHandling.fallback)
    /\ sanitizeQuery(errorHandling.query) # <<>> => errorHandling.status # "thrown"

\* How a call ends: with the result of the first call of the operation that
\* resolves, or with the failure of the last call of the operation.
CallEnds ==
    (errorHandling.status = "running" /\ errorHandling'.status # "running") =>
        /\ errorHandling'.invocations = errorHandling.invocations + 1
        /\ \/ /\ errorHandling'.status = "returned"
              /\ errorHandling'.result = "value"
              /\ errorHandling'.lastError = errorHandling.lastError
           \/ /\ errorHandling'.lastError # NoError
              /\ IF RethrownByHandleError
                 THEN errorHandling'.status = "thrown"
                      /\ errorHandling'.thrown = "handleError"
                 ELSE IF errorHandling.fallback
                 THEN errorHandling'.status = "returned"
                      /\ errorHandling'.result = "fallback"
                 ELSE errorHandling'.status = "thrown"
                      /\ errorHandling'.thrown = "lastError"

\* C40, amended: withErrorHandling calls the operation at most
\* maxRetries + 1 times (context.maxRetries, default 3), makes no further
\* attempt after a failure that is not retryable, returns the first
\* successful result, and after the final failure returns the fallback when
\* there is one and otherwise throws the last error -- unless the context has
\* the severity critical on a page served from localhost, where handleError
\* throws the first failure; a photo search whose sanitized query is not
\* empty never rejects.
RetryThenFallbackOrThrow == []RetryBounds /\ [][CallEnds]_vars

\* The fallback has been returned after the default number of retries: the
\* operation was called maxRetries + 1 times and failed every time.
FallbackAfterAllRetries ==
    /\ errorHandling.status = "returned"
    /\ errorHandling.result = "fallback"
    /\ errorHandling.context.maxRetries = Null
    /\ errorHandling.invocations = maxRetries + 1

\* C37: every raw pointer-down and pointer-up is delivered once to the
\* board, in the order of the raw events, also when several pointers go down
\* or up in one turn of the event loop: when no timer is left to fire, the
\* delivered events are the raw events, and when moreover no pointer is
\* down, the board has no active pointer.
StartsAndEndsDelivered ==
    /\ touchHandler.timers = <<>> => pointerInput.delivered = pointerInput.raw
    /\ (touchHandler.timers = <<>> /\ pointerInput.down = {}) => activePointers = <<>>

TypeOK ==
    /\ \A i \in DOMAIN pieces :
          /\ pieces[i].rotation \in Rotations
          /\ pieces[i].faceUp \in BOOLEAN
          /\ pieces[i].isLocked \in BOOLEAN
    /\ selectedPiece \in {pieces[i].id : i \in DOMAIN pieces} \cup {Null, ReplacedPiece}
    /\ loadPromise \in {"none", "pending", "fulfilled", "rejected"}

====
